---------------------------- MODULE Spec2Model ----------------------------
(***************************************************************************)
(* Model of the dashboard middleware (FastAPI + MongoDB): the JWT gate of  *)
(* utils.py, the /apiv1 routes of routes/apiv1_routes.py and the           *)
(* controllers HyperBotController and HyperBotAnalyticsController.         *)
(*                                                                         *)
(* Text is modelled as sequences of one-character strings, so that prefix  *)
(* tests, slices and pattern searches are computed as the code computes    *)
(* them.  Python's None is a sentinel of the same shape as the values it   *)
(* stands in for.                                                          *)
(***************************************************************************)
EXTENDS Integers, Sequences, FiniteSets, TLC

VARIABLES
    build,      \* which str(HTTPException) the installed framework gives
    phase,      \* position of the request in flight
    req,        \* the request: route and the two headers the gate reads
    body,       \* the request model handed to the controller operation
    token,      \* what extract_jwt_from_request returned for this request
    user,       \* the identity returned by get_current_user, or NoUser
    verified,   \* verify_jwt_token succeeded for this request
    loc,        \* locals of the controller operation that is running
    resp,       \* the HTTP response of this request
    ctrlCalls,  \* controller operations invoked for this request
    queries,    \* number of store queries issued for this request
    tasks,      \* the coroutines get_analytics_summary gathers
    store,      \* the CompleteUsersData collection
    events      \* the Analytics.general_users collection

vars == <<build, phase, req, body, token, user, verified, loc, resp,
          ctrlCalls, queries, tasks, store, events>>

-----------------------------------------------------------------------------
(* Python values *)

NoneStr == "<None>"
NoneSeq == <<"<None>">>
Missing == <<"<missing>">>

\* "not v" for a str-or-None held as a string, and for one held as text
Falsy(v) == v \in {NoneStr, ""}

FalsySeq(v) == v \in {NoneSeq, <<>>}

DictGet(d, k) == IF k \in DOMAIN d THEN d[k] ELSE NoneStr

DictSet(d, k, v) == [x \in (DOMAIN d) \cup {k} |-> IF x = k THEN v ELSE d[x]]

EmptyDict == [x \in {} |-> NoneStr]

RECURSIVE DictLiteral(_)
\* a dict display {k1: v1, k2: v2, ...}: a repeated key keeps its last value
DictLiteral(pairs) ==
    IF pairs = <<>> THEN EmptyDict
    ELSE LET n == Len(pairs)
         IN  DictSet(DictLiteral(SubSeq(pairs, 1, n - 1)), pairs[n][1], pairs[n][2])

StartsWith(s, p) == Len(s) >= Len(p) /\ SubSeq(s, 1, Len(p)) = p

SetMin(S) == CHOOSE m \in S : \A o \in S : m <= o

-----------------------------------------------------------------------------
(* utils.py: JWT configuration and the tokens a client may present *)

JWT_SECRET == "server-secret"
JWT_ALGORITHM == "HS256"

\* what a token string decodes to: structure, header alg, signing key, expiry
\* and payload
TokenTable ==
    (<<"g">> :> [segments |-> TRUE, alg |-> "HS256", key |-> "server-secret",
                 expired |-> FALSE,
                 payload |-> ("userId" :> "u1") @@ ("email" :> "a@x")]) @@
    (<<"h">> :> [segments |-> TRUE, alg |-> "HS256", key |-> "server-secret",
                 expired |-> FALSE, payload |-> ("userId" :> "u2")]) @@
    (<<"x">> :> [segments |-> TRUE, alg |-> "HS256", key |-> "server-secret",
                 expired |-> TRUE, payload |-> ("userId" :> "u1")]) @@
    (<<"s">> :> [segments |-> TRUE, alg |-> "HS256", key |-> "other-secret",
                 expired |-> FALSE, payload |-> ("userId" :> "u1")]) @@
    (<<"z">> :> [segments |-> TRUE, alg |-> "HS256", key |-> "other-secret",
                 expired |-> TRUE, payload |-> ("userId" :> "u1")]) @@
    (<<"a">> :> [segments |-> TRUE, alg |-> "none", key |-> "server-secret",
                 expired |-> FALSE, payload |-> ("userId" :> "u1")]) @@
    (<<"n">> :> [segments |-> TRUE, alg |-> "HS256", key |-> "server-secret",
                 expired |-> FALSE, payload |-> ("email" :> "a@x")]) @@
    (<<"e">> :> [segments |-> TRUE, alg |-> "HS256", key |-> "server-secret",
                 expired |-> FALSE, payload |-> ("userId" :> "")])

Tokens == DOMAIN TokenTable

Malformed == [segments |-> FALSE, alg |-> "", key |-> "", expired |-> FALSE,
              payload |-> EmptyDict]

TokenInfo(t) == IF t \in Tokens THEN TokenTable[t] ELSE Malformed

-----------------------------------------------------------------------------
(* Exceptions: the classes the gate's handlers name, and their bases *)

ExcBase ==
    ("ExpiredSignatureError" :> "InvalidTokenError") @@
    ("InvalidSignatureError" :> "DecodeError") @@
    ("DecodeError" :> "InvalidTokenError") @@
    ("InvalidAlgorithmError" :> "InvalidTokenError") @@
    ("InvalidTokenError" :> "PyJWTError") @@
    ("PyJWTError" :> "Exception") @@
    ("HTTPException" :> "Exception") @@
    ("TypeError" :> "Exception") @@
    ("OperationFailure" :> "PyMongoError") @@
    ("PyMongoError" :> "Exception")

RECURSIVE IsInstance(_, _)
IsInstance(cls, handler) ==
    \/ cls = handler
    \/ cls \in DOMAIN ExcBase /\ IsInstance(ExcBase[cls], handler)

Returned(v) == [kind |-> "return", value |-> v]
Raised(cls, msg) == [kind |-> "raise", cls |-> cls, msg |-> msg, status |-> 0]
HTTPException(code, detail) ==
    [kind |-> "raise", cls |-> "HTTPException", msg |-> detail, status |-> code]

Builds == {"str_empty", "str_status_detail"}

StatusText(code) ==
    CASE code = 400 -> "400" [] code = 401 -> "401" [] code = 500 -> "500"
      [] OTHER -> "?"

\* str(e): the message of a library exception; for an HTTPException the
\* framework's own rendering, which differs between framework releases
StrOf(e, b) ==
    IF e.cls = "HTTPException"
    THEN IF b = "str_empty" THEN <<>>
         ELSE <<StatusText(e.status), ": ">> \o e.msg
    ELSE e.msg

\* jwt.decode(token, JWT_SECRET, algorithms=[JWT_ALGORITHM])
jwt_decode(t) ==
    LET i == TokenInfo(t)
    IN  IF ~i.segments THEN Raised("DecodeError", <<"Not enough segments">>)
        ELSE IF i.alg # JWT_ALGORITHM
        THEN Raised("InvalidAlgorithmError",
                    <<"The specified alg value is not allowed">>)
        ELSE IF i.key # JWT_SECRET
        THEN Raised("InvalidSignatureError", <<"Signature verification failed">>)
        ELSE IF i.expired
        THEN Raised("ExpiredSignatureError", <<"Signature has expired">>)
        ELSE Returned(i.payload)

-----------------------------------------------------------------------------
(* utils.py: extract_jwt_from_request *)

BearerPrefix == <<"B", "e", "a", "r", "e", "r", " ">>
AuthTokenKey == <<"a", "u", "t", "h", "-", "t", "o", "k", "e", "n", "=">>

\* re.search(r'auth-token=([^;]+)', s): group 1 of the leftmost match, or
\* NoneSeq
ReSearchAuthToken(s) ==
    LET k == Len(AuthTokenKey)
        starts == {i \in 1..Len(s) :
                      /\ i + k <= Len(s)
                      /\ SubSeq(s, i, i + k - 1) = AuthTokenKey
                      /\ s[i + k] # ";"}
    IN  IF starts = {} THEN NoneSeq
        ELSE LET i == SetMin(starts)
                 stops == {j \in (i + k)..(Len(s) + 1) :
                              j = Len(s) + 1 \/ s[j] = ";"}
             IN  SubSeq(s, i + k, SetMin(stops) - 1)

\* the extractor with the cookie consulted before the Authorization header
CookieFirst(r) ==
    IF r.cookie # <<>> /\ ReSearchAuthToken(r.cookie) # NoneSeq
    THEN ReSearchAuthToken(r.cookie)
    ELSE IF StartsWith(r.authorization, BearerPrefix)
    THEN SubSeq(r.authorization, Len(BearerPrefix) + 1, Len(r.authorization))
    ELSE NoneSeq

\* headers.get(name, ''): an absent header reads as the empty string
extract_jwt_from_request(r) ==
    LET auth_header == r.authorization
        cookie_header == r.cookie
    IN  IF auth_header # <<>> /\ StartsWith(auth_header, BearerPrefix)
        THEN SubSeq(auth_header, Len(BearerPrefix) + 1, Len(auth_header))
        ELSE IF cookie_header # <<>>
        THEN ReSearchAuthToken(cookie_header)
        ELSE NoneSeq

-----------------------------------------------------------------------------
(* utils.py: verify_jwt_token *)

NoTokenDetail == <<"No authentication token found. Please login first.">>
MissingUserIdDetail == <<"Invalid token: missing userId">>
ExpiredDetail == <<"Token has expired. Please login again.">>
SignatureDetail == <<"Invalid token signature. JWT_SECRET mismatch.">>
InvalidTokenPrefix == "Invalid token: "
VerificationFailedPrefix == "Token verification failed: "

\* the try block: decode, then require a truthy userId
VerifyTryBody(t) ==
    LET d == jwt_decode(t)
    IN  IF d.kind = "raise" THEN d
        ELSE IF Falsy(DictGet(d.value, "userId"))
        THEN HTTPException(401, MissingUserIdDetail)
        ELSE Returned(d.value)

\* the except clauses with the generic one ahead of the expiry one
VerifyHandlersGenericFirst ==
    <<"InvalidTokenError", "ExpiredSignatureError", "InvalidSignatureError",
      "Exception">>

\* the except clauses of verify_jwt_token, in source order
VerifyHandlers ==
    <<"ExpiredSignatureError", "InvalidTokenError", "InvalidSignatureError",
      "Exception">>

VerifyHandlerDetail(h, e, b) ==
    CASE h = "ExpiredSignatureError" -> ExpiredDetail
      [] h = "InvalidTokenError" -> <<InvalidTokenPrefix>> \o StrOf(e, b)
      [] h = "InvalidSignatureError" -> SignatureDetail
      [] OTHER -> <<VerificationFailedPrefix>> \o StrOf(e, b)

\* the first except clause whose class the raised exception is an instance of
FirstHandler(handlers, e) ==
    LET hits == {i \in 1..Len(handlers) : IsInstance(e.cls, handlers[i])}
    IN  handlers[SetMin(hits)]

verify_jwt_token(r, b) ==
    LET t == extract_jwt_from_request(r)
    IN  IF FalsySeq(t) THEN HTTPException(401, NoTokenDetail)
        ELSE LET o == VerifyTryBody(t)
             IN  IF o.kind = "return" THEN o
                 ELSE HTTPException(401,
                        VerifyHandlerDetail(FirstHandler(VerifyHandlers, o), o, b))

-----------------------------------------------------------------------------
(* Characters: str.lower() and the order the store sorts text by *)

LowerTable ==
    ("A" :> "a") @@ ("B" :> "b") @@ ("F" :> "f") @@ ("I" :> "i") @@
    ("P" :> "p") @@ ("T" :> "t") @@ ("V" :> "v") @@ ("Z" :> "z") @@
    ("H" :> "h") @@ ("S" :> "s")

LowerChr(c) == IF c \in DOMAIN LowerTable THEN LowerTable[c] ELSE c

str_lower(s) == [i \in 1..Len(s) |-> LowerChr(s[i])]

Digits == <<"0", "1", "2", "3", "4", "5", "6", "7", "8", "9">>

IsDigit(c) == \E i \in 1..Len(Digits) : Digits[i] = c

DigitValue(c) == (CHOOSE i \in 1..Len(Digits) : Digits[i] = c) - 1

\* code point order, as far as the characters of a timestamp go: space, '-',
\* the digits, ':'; every other character sorts after them
CharOrd(c) ==
    CASE c = " " -> 0
      [] c = "-" -> 1
      [] IsDigit(c) -> 2 + DigitValue(c)
      [] c = ":" -> 12
      [] OTHER -> 13

RECURSIVE TextLess(_, _)
TextLess(a, b) ==
    IF b = <<>> THEN FALSE
    ELSE IF a = <<>> THEN TRUE
    ELSE IF CharOrd(a[1]) # CharOrd(b[1]) THEN CharOrd(a[1]) < CharOrd(b[1])
    ELSE TextLess(Tail(a), Tail(b))

-----------------------------------------------------------------------------
(* Regular expressions, as the store (PCRE) and Python's re read them:     *)
(* literals, '.', a postfix '*', a backslash escape and a leading '^'      *)

Backslash == "\\"

ReSpecials == {".", "*", "\\", "^", "-", " "}

\* re.escape(s): a backslash before every special character
RECURSIVE re_escape(_)
re_escape(s) ==
    IF s = <<>> THEN <<>>
    ELSE (IF s[1] \in ReSpecials THEN <<Backslash, s[1]>> ELSE <<s[1]>>)
         \o re_escape(Tail(s))

AtomLen(p) == IF p[1] = Backslash THEN 2 ELSE 1

RECURSIVE RegexBodyValid(_)
RegexBodyValid(p) ==
    IF p = <<>> THEN TRUE
    ELSE IF p[1] = "*" THEN FALSE
    ELSE IF p[1] = Backslash /\ Len(p) = 1 THEN FALSE
    ELSE LET n == AtomLen(p)
             starred == Len(p) > n /\ p[n + 1] = "*"
         IN  RegexBodyValid(SubSeq(p, n + (IF starred THEN 2 ELSE 1), Len(p)))

RegexValid(p) ==
    IF p # <<>> /\ p[1] = "^" THEN RegexBodyValid(Tail(p)) ELSE RegexBodyValid(p)

ChrEq(a, b, ic) == IF ic THEN LowerChr(a) = LowerChr(b) ELSE a = b

AtomMatches(p, c, ic) ==
    IF p[1] = Backslash THEN ChrEq(p[2], c, ic)
    ELSE IF p[1] = "." THEN TRUE
    ELSE ChrEq(p[1], c, ic)

RECURSIVE MatchHere(_, _, _)
MatchHere(p, s, ic) ==
    IF p = <<>> THEN TRUE
    ELSE LET n == AtomLen(p)
             starred == Len(p) > n /\ p[n + 1] = "*"
             rest == SubSeq(p, n + (IF starred THEN 2 ELSE 1), Len(p))
         IN  IF starred
             THEN \E k \in 0..Len(s) :
                     /\ \A i \in 1..k : AtomMatches(p, s[i], ic)
                     /\ MatchHere(rest, SubSeq(s, k + 1, Len(s)), ic)
             ELSE /\ s # <<>>
                  /\ AtomMatches(p, s[1], ic)
                  /\ MatchHere(rest, Tail(s), ic)

\* an unanchored search of a valid pattern p in s
RegexSearch(p, s, ic) ==
    IF p # <<>> /\ p[1] = "^" THEN MatchHere(Tail(p), s, ic)
    ELSE \E k \in 0..Len(s) : MatchHere(p, SubSeq(s, k + 1, Len(s)), ic)

\* s holds t as a literal substring, letter case ignored
ContainsText(s, t) ==
    \E k \in 0..(Len(s) - Len(t)) :
        \A i \in 1..Len(t) : ChrEq(s[k + i], t[i], TRUE)

-----------------------------------------------------------------------------
(* datetime.strptime(s, "%Y-%m-%d") and strftime("%Y-%m-%d") *)

RECURSIVE SplitOn(_, _)
\* str.split(sep) for a one-character separator
SplitOn(s, sep) ==
    LET cuts == {i \in 1..Len(s) : s[i] = sep}
    IN  IF cuts = {} THEN <<s>>
        ELSE LET i == SetMin(cuts)
             IN  <<SubSeq(s, 1, i - 1)>> \o SplitOn(SubSeq(s, i + 1, Len(s)), sep)

AllDigits(s) == s # <<>> /\ \A i \in 1..Len(s) : IsDigit(s[i])

RECURSIVE ToInt(_)
ToInt(s) ==
    IF s = <<>> THEN 0
    ELSE 10 * ToInt(SubSeq(s, 1, Len(s) - 1)) + DigitValue(s[Len(s)])

IsLeap(y) == (y % 4 = 0 /\ y % 100 # 0) \/ y % 400 = 0

DaysInMonth(y, m) ==
    IF m = 2 THEN (IF IsLeap(y) THEN 29 ELSE 28)
    ELSE IF m \in {4, 6, 9, 11} THEN 30 ELSE 31

\* the parsed date as <<year, month, day>>, or <<>> where strptime raises
\* ValueError: %Y is four digits, %m and %d one or two, and the date exists
strptime_ymd(s) ==
    LET parts == SplitOn(s, "-")
    IN  IF Len(parts) # 3 THEN <<>>
        ELSE IF ~(AllDigits(parts[1]) /\ AllDigits(parts[2]) /\ AllDigits(parts[3]))
        THEN <<>>
        ELSE IF Len(parts[1]) # 4 \/ Len(parts[2]) > 2 \/ Len(parts[3]) > 2
        THEN <<>>
        ELSE LET y == ToInt(parts[1])
                 m == ToInt(parts[2])
                 d == ToInt(parts[3])
             IN  IF y >= 1 /\ m \in 1..12 /\ d >= 1 /\ d <= DaysInMonth(y, m)
                 THEN <<y, m, d>> ELSE <<>>

Pad2(n) == <<Digits[(n \div 10) + 1], Digits[(n % 10) + 1]>>

strftime_ymd(t) ==
    Pad2(t[1] \div 100) \o Pad2(t[1] % 100) \o <<"-">> \o Pad2(t[2]) \o <<"-">>
    \o Pad2(t[3])

-----------------------------------------------------------------------------
(* The user records of CompleteUsersData, by field path *)

F_id == "_id"
F_user_id == "User Info.user_id"
F_username == "User Info.username"
F_nama_depan == "User Info.nama_depan"
F_bi_username == "Data Lengkap Sesi.Basic Information.Username"
F_bi_first_name == "Data Lengkap Sesi.Basic Information.First Name"
F_waktu == "User Info.waktu_ditambahkan"
F_tier == "Membership.tier"
F_ui_session == "User Info.session_string"
F_si_session == "Data Lengkap Sesi.Session Info.session_string"
F_si_Session == "Data Lengkap Sesi.Session Info.Session String"

NullV == <<"<null>">>
ObjectIdTag == "<ObjectId>"

GetField(doc, path) == IF path \in DOMAIN doc THEN doc[path] ELSE Missing

IsText(v) == v # Missing /\ v # NullV /\ (v = <<>> \/ v[1] # ObjectIdTag)

Jan05 == <<"2", "0", "2", "4", "-", "0", "1", "-", "0", "5">>
Jan06 == <<"2", "0", "2", "4", "-", "0", "1", "-", "0", "6">>
Feb01 == <<"2", "0", "2", "4", "-", "0", "2", "-", "0", "1">>
T_VIP == <<"V", "I", "P">>
T_Premium == <<"P", "r", "e", "m", "i", "u", "m">>
T_Freemium == <<"F", "r", "e", "e", "m", "i", "u", "m">>
T_Trial == <<"T", "r", "i", "a", "l">>
T_Plus == <<"P", "l", "u", "s">>
T_Zenith == <<"Z", "e", "n", "i", "t", "h">>

\* the records an external bot may have written, in the order it wrote them
Catalogue ==
    << (F_id :> <<ObjectIdTag, "1">>) @@ (F_user_id :> <<"7">>) @@
       (F_username :> <<"a", "b">>) @@ (F_waktu :> Jan05 \o <<" ", "0", "9">>) @@
       (F_tier :> T_Premium) @@ (F_ui_session :> <<"s">>),
       (F_id :> <<ObjectIdTag, "2">>) @@ (F_user_id :> <<"8">>) @@
       (F_username :> <<"x", ".", "*">>) @@ (F_waktu :> Jan06 \o <<" ", "1", "0">>) @@
       (F_tier :> T_VIP),
       (F_id :> <<ObjectIdTag, "3">>) @@ (F_user_id :> <<"9">>) @@
       (F_username :> <<"c">>) @@ (F_nama_depan :> <<"A">>) @@
       (F_waktu :> Jan05 \o <<" ", "1", "1">>) @@
       (F_tier :> T_Freemium) @@ (F_si_session :> <<>>),
       (F_id :> <<ObjectIdTag, "4">>) @@ (F_user_id :> <<"6">>) @@
       (F_username :> NullV) @@ (F_bi_username :> <<"d">>) @@
       (F_waktu :> Feb01 \o <<" ", "0", "8">>) @@
       (F_si_Session :> <<"t">>) @@ (F_ui_session :> NullV),
       (F_id :> <<ObjectIdTag, "5">>) @@ (F_user_id :> <<"5">>) @@
       (F_username :> <<"e">>) @@ (F_waktu :> Jan06 \o <<" ", "0", "7">>) @@
       (F_tier :> T_VIP) @@ (F_ui_session :> NullV) @@ (F_si_session :> NullV)
    >>

-----------------------------------------------------------------------------
(* controllers/HyperBotController.py: build_search_query *)

Ops(d) == [kind |-> "ops", ops |-> d]
Eq(v) == [kind |-> "eq", value |-> v]
FieldClause(path, c) == [path |-> path, c |-> c]

SearchFields ==
    <<F_user_id, F_username, F_nama_depan, F_bi_username, F_bi_first_name>>

SessionFields == <<F_ui_session, F_si_session, F_si_Session>>

I_opt == <<"i">>

membership_mapping ==
    (<<"f", "r", "e", "e", "m", "i", "u", "m">> :> T_Freemium) @@
    (<<"t", "r", "i", "a", "l">> :> T_Trial) @@
    (<<"p", "r", "e", "m", "i", "u", "m">> :> T_Premium) @@
    (<<"p", "l", "u", "s">> :> T_Plus) @@
    (<<"v", "i", "p">> :> T_VIP) @@
    (<<"z", "e", "n", "i", "t", "h">> :> T_Zenith)

\* if search_query: query["$or"] = [... five regex clauses ...]
WithSearch(query, search_query) ==
    IF FalsySeq(search_query) THEN query
    ELSE LET search_regex ==
                 Ops(DictLiteral(<< <<"$regex", search_query>>,
                                    <<"$options", I_opt>> >>))
         IN  DictSet(query, "$or",
                     [i \in 1..Len(SearchFields) |->
                         FieldClause(SearchFields[i], search_regex)])

\* if date_filter: try strptime/strftime and set the prefix clause; a
\* ValueError is passed over
\* the date branch without the parse: the given text becomes the prefix
WithDateUnchecked(query, date_filter) ==
    IF FalsySeq(date_filter) THEN query
    ELSE DictSet(query, F_waktu,
            Ops(DictLiteral(<< <<"$regex", <<"^">> \o date_filter>>,
                               <<"$options", I_opt>> >>)))

WithDate(query, date_filter) ==
    IF FalsySeq(date_filter) THEN query
    ELSE LET date_obj == strptime_ymd(date_filter)
         IN  IF date_obj = <<>> THEN query
             ELSE DictSet(query, F_waktu,
                     Ops(DictLiteral(<< <<"$regex", <<"^">> \o strftime_ymd(date_obj)>>,
                                        <<"$options", I_opt>> >>)))

\* if membership_filter: query["Membership.tier"] = mapping.get(lower, given)
WithMembership(query, membership_filter) ==
    IF FalsySeq(membership_filter) THEN query
    ELSE LET k == str_lower(membership_filter)
             actual_tier == IF k \in DOMAIN membership_mapping
                            THEN membership_mapping[k] ELSE membership_filter
         IN  DictSet(query, F_tier, Eq(actual_tier))

\* the session branches with every value but "with_session" read as absence
WithSessionDefaultAbsent(query, session_filter) ==
    IF session_filter = "with_session"
    THEN DictSet(query, "$or",
           [i \in 1..Len(SessionFields) |->
               FieldClause(SessionFields[i],
                   Ops(DictLiteral(<< <<"$exists", <<"true">> >>,
                                      <<"$ne", NullV>> >>)))])
    ELSE DictSet(query, "$and",
           [i \in 1..Len(SessionFields) |->
               << FieldClause(SessionFields[i],
                      Ops(DictLiteral(<< <<"$exists", <<"false">> >> >>))),
                  FieldClause(SessionFields[i], Eq(<<>>)),
                  FieldClause(SessionFields[i], Eq(NullV)) >>])

\* the two session branches; each clause is written as the source's dict
\* display, repeated "$ne" key included
WithSession(query, session_filter) ==
    IF session_filter = "with_session"
    THEN DictSet(query, "$or",
           [i \in 1..Len(SessionFields) |->
               FieldClause(SessionFields[i],
                   Ops(DictLiteral(<< <<"$exists", <<"true">> >>,
                                      <<"$ne", <<>> >>,
                                      <<"$ne", NullV>> >>)))])
    ELSE IF session_filter = "without_session"
    THEN DictSet(query, "$and",
           [i \in 1..Len(SessionFields) |->
               << FieldClause(SessionFields[i],
                      Ops(DictLiteral(<< <<"$exists", <<"false">> >> >>))),
                  FieldClause(SessionFields[i], Eq(<<>>)),
                  FieldClause(SessionFields[i], Eq(NullV)) >>])
    ELSE query

build_search_query(search_query, date_filter, membership_filter, session_filter) ==
    WithSession(
        WithMembership(
            WithDate(WithSearch(EmptyDict, search_query), date_filter),
            membership_filter),
        session_filter)

-----------------------------------------------------------------------------
(* The store's reading of a predicate (MongoDB query semantics) *)

OpValid(ops, op) == op = "$regex" => RegexValid(ops[op])

ClauseValid(c) == c.kind = "ops" => \A op \in DOMAIN c.ops : OpValid(c.ops, op)

\* a predicate the store rejects (an invalid regular expression) makes the
\* query raise
QueryValid(query) ==
    \A k \in DOMAIN query :
        IF k = "$or" THEN \A i \in 1..Len(query[k]) : ClauseValid(query[k][i].c)
        ELSE IF k = "$and"
        THEN \A i \in 1..Len(query[k]) :
                \A j \in 1..Len(query[k][i]) : ClauseValid(query[k][i][j].c)
        ELSE ClauseValid(query[k])

MatchOp(v, ops, op) ==
    CASE op = "$exists" -> (v # Missing) = (ops[op] = <<"true">>)
      [] op = "$ne" -> IF ops[op] = NullV THEN v # NullV /\ v # Missing
                       ELSE v # ops[op]
      [] op = "$regex" -> IsText(v) /\ RegexSearch(ops[op], v, "$options" \in DOMAIN ops
                                                               /\ ops["$options"] = I_opt)
      [] OTHER -> TRUE

MatchClause(v, c) ==
    IF c.kind = "eq"
    THEN (IF c.value = NullV THEN v \in {NullV, Missing} ELSE v = c.value)
    ELSE \A op \in DOMAIN c.ops : MatchOp(v, c.ops, op)

MatchField(doc, fc) == MatchClause(GetField(doc, fc.path), fc.c)

Matches(doc, query) ==
    \A k \in DOMAIN query :
        IF k = "$or" THEN \E i \in 1..Len(query[k]) : MatchField(doc, query[k][i])
        ELSE IF k = "$and"
        THEN \A i \in 1..Len(query[k]) :
                \E j \in 1..Len(query[k][i]) : MatchField(doc, query[k][i][j])
        ELSE MatchClause(GetField(doc, k), query[k])

RECURSIVE SelectDocs(_, _)
SelectDocs(docs, query) ==
    IF docs = <<>> THEN <<>>
    ELSE (IF Matches(docs[1], query) THEN <<docs[1]>> ELSE <<>>)
         \o SelectDocs(Tail(docs), query)

count_documents(docs, query) == Len(SelectDocs(docs, query))

\* the sort key of a record: a missing or null field sorts below every text
SortKey(doc) == LET v == GetField(doc, F_waktu) IN IF IsText(v) THEN v ELSE <<>>

RECURSIVE InsertDesc(_, _)
InsertDesc(sorted, d) ==
    IF sorted = <<>> THEN <<d>>
    ELSE IF TextLess(SortKey(sorted[1]), SortKey(d)) THEN <<d>> \o sorted
    ELSE <<sorted[1]>> \o InsertDesc(Tail(sorted), d)

RECURSIVE SortDesc(_)
\* .sort("User Info.waktu_ditambahkan", DESCENDING); equal keys keep the
\* collection's order
SortDesc(docs) ==
    IF docs = <<>> THEN <<>>
    ELSE InsertDesc(SortDesc(SubSeq(docs, 1, Len(docs) - 1)), docs[Len(docs)])

\* find(query).sort(...).skip(skip).limit(limit)
find_page(docs, query, skip, limit) ==
    LET hits == SortDesc(SelectDocs(docs, query))
        last == IF skip + limit < Len(hits) THEN skip + limit ELSE Len(hits)
    IN  SubSeq(hits, skip + 1, last)

\* str(ObjectId): the identifier's text
convert_object_ids(doc) ==
    [k \in DOMAIN doc |->
        IF doc[k] # <<>> /\ doc[k][1] = ObjectIdTag THEN Tail(doc[k]) ELSE doc[k]]

-----------------------------------------------------------------------------
(* convert_object_ids over nested values.  A value is an atom (a string, an *)
(* integer, an ObjectId), a dict or a list; kids holds the items of a dict  *)
(* in its order (key, value) and the items of a list (key "").              *)

StrV(text) == [t |-> "str", s |-> text, kids |-> <<>>]
IntV(text) == [t |-> "int", s |-> text, kids |-> <<>>]
ObjectIdV(hex) == [t |-> "oid", s |-> hex, kids |-> <<>>]
DictV(items) == [t |-> "dict", s |-> "", kids |-> items]
ListV(items) == [t |-> "list", s |-> "", kids |-> items]
Item(key, val) == [key |-> key, val |-> val]

\* hasattr(value, 'ObjectId') or str(type(value)) == "<class 'bson.objectid.ObjectId'>"
IsObjectId(value) == value.t = "oid"

\* str(value) applied to whatever is not a dict or a list
StringifyAtoms(doc) ==
    IF doc.t \in {"dict", "list"}
    THEN [doc EXCEPT !.kids = [i \in 1..Len(doc.kids) |->
                                 Item(doc.kids[i].key,
                                      IF doc.kids[i].val.t \in {"dict", "list"}
                                      THEN doc.kids[i].val
                                      ELSE StrV(doc.kids[i].val.s))]]
    ELSE doc

RECURSIVE ConvertObjectIds(_)
\* convert_object_ids(doc): the dict is rewritten key by key and returned
ConvertObjectIds(doc) ==
    IF doc.t # "dict" THEN doc
    ELSE LET converted(value) ==
                 IF IsObjectId(value) THEN StrV(value.s)
                 ELSE IF value.t = "dict" THEN ConvertObjectIds(value)
                 ELSE IF value.t = "list"
                 THEN ListV([i \in 1..Len(value.kids) |->
                                Item("", IF value.kids[i].val.t = "dict"
                                         THEN ConvertObjectIds(value.kids[i].val)
                                         ELSE value.kids[i].val)])
                 ELSE value
         IN  DictV([i \in 1..Len(doc.kids) |->
                       Item(doc.kids[i].key, converted(doc.kids[i].val))])

-----------------------------------------------------------------------------
(* Bounds of the inputs and of the collection *)

MaxDocs == 5
NegRange == 1
MaxSmallLimit == 3
LimitOver == 1
MaxSkip == 3

LIMIT_MIN == 1
LIMIT_MAX == 100

\* an Optional[int] is <<>> for None and <<n>> for the integer n
OptInts(S) == {<<>>} \cup {<<n>> : n \in S}

LimitInputs ==
    OptInts(((0 - NegRange)..MaxSmallLimit) \cup (LIMIT_MAX..(LIMIT_MAX + LimitOver)))

SkipInputs == OptInts((0 - NegRange)..MaxSkip)

\* the n-th record the bot writes
NewDoc(n) ==
    [Catalogue[((n - 1) % Len(Catalogue)) + 1] EXCEPT
        ![F_id] = <<ObjectIdTag, Digits[(n % 10) + 1]>>]

-----------------------------------------------------------------------------
(* The request in flight *)

NoBody == [kind |-> "none"]
NoResp == [status |-> 0, detail |-> <<>>, body |-> NoBody]
NoUser == EmptyDict
NoLoc == EmptyDict
NoTasks == EmptyDict
NoOut == [kind |-> "none"]

\* what the framework answers when a dependency or a route function returns
\* or raises
ResponseOf(out) ==
    IF out.kind = "return" THEN [status |-> 200, detail |-> <<>>, body |-> out.value]
    ELSE IF out.cls = "HTTPException"
    THEN [status |-> out.status, detail |-> out.msg, body |-> NoBody]
    ELSE [status |-> 500, detail |-> <<"Internal Server Error">>, body |-> NoBody]

StoreDown == Raised("OperationFailure", <<"connection refused">>)
BadRegex == Raised("OperationFailure", <<"Regular expression is invalid">>)
NoneCompare ==
    Raised("TypeError",
           <<"'>' not supported between instances of 'int' and 'NoneType'">>)

\* except Exception as e: raise HTTPException(500, f"{prefix}{str(e)}")
Wrap500(prefix, e, b) == HTTPException(500, <<prefix>> \o StrOf(e, b))

\* the server after construction, over a general_users collection holding ev
Start(ev) ==
    /\ build \in Builds
    /\ phase = "idle"
    /\ req = [route |-> "none", authorization |-> <<>>, cookie |-> <<>>]
    /\ body = NoBody
    /\ token = NoneSeq
    /\ user = NoUser
    /\ verified = FALSE
    /\ loc = NoLoc
    /\ resp = NoResp
    /\ ctrlCalls = 0
    /\ queries = 0
    /\ tasks = NoTasks
    /\ store \in {[i \in 1..n |-> NewDoc(i)] : n \in 0..MaxDocs}
    /\ events = ev

Init == Start(<<>>)

\* a request arrives; the server has answered the one before it and none of
\* its coroutines is left running
Receive(route, authorization, cookie) ==
    /\ phase \in {"idle", "responded"}
    /\ loc = NoLoc
    /\ \A t \in DOMAIN tasks : tasks[t].out # NoOut
    /\ phase' = "received"
    /\ req' = [route |-> route, authorization |-> authorization, cookie |-> cookie]
    /\ body' = NoBody
    /\ token' = NoneSeq
    /\ user' = NoUser
    /\ verified' = FALSE
    /\ resp' = NoResp
    /\ ctrlCalls' = 0
    /\ queries' = 0
    /\ tasks' = NoTasks
    /\ UNCHANGED <<build, loc, store, events>>

\* a dependency that lets the request through whatever the verifier says
GateLetsThrough ==
    /\ phase = "received"
    /\ token' = extract_jwt_from_request(req)
    /\ verified' = (verify_jwt_token(req, build).kind = "return")
    /\ user' = IF verified' THEN verify_jwt_token(req, build).value ELSE NoUser
    /\ phase' = "authed"
    /\ UNCHANGED <<build, req, body, loc, resp, ctrlCalls, queries, tasks, store, events>>

\* routes/apiv1_routes.py: the dependency every route declares
get_current_user ==
    /\ phase = "received"
    /\ LET o == verify_jwt_token(req, build)
       IN  /\ token' = extract_jwt_from_request(req)
           /\ IF o.kind = "return"
              THEN /\ user' = o.value
                   /\ verified' = TRUE
                   /\ phase' = "authed"
                   /\ resp' = resp
              ELSE /\ user' = user
                   /\ verified' = FALSE
                   /\ phase' = "responded"
                   /\ resp' = ResponseOf(o)
    /\ UNCHANGED <<build, req, body, loc, ctrlCalls, queries, tasks, store, events>>

\* the external bot appends a record
ExternalAppend ==
    /\ Len(store) < MaxDocs
    /\ store' = Append(store, NewDoc(Len(store) + 1))
    /\ UNCHANGED <<build, phase, req, body, token, user, verified, loc, resp,
                   ctrlCalls, queries, tasks, events>>

\* the route function returns or raises: the request is answered
Answer(out) ==
    /\ phase' = "responded"
    /\ resp' = ResponseOf(out)
    /\ loc' = NoLoc

-----------------------------------------------------------------------------
(* controllers/HyperBotController.py: pagination of listing and search *)

Max2(a, b) == IF a > b THEN a ELSE b
Min2(a, b) == IF a < b THEN a ELSE b

\* the clamp with its upper bound forgotten
ClampLimitNoCap(l) == Max2(l, LIMIT_MIN)

\* limit = min(max(request.limit, 1), 100)
ClampLimit(l) == Min2(Max2(l, LIMIT_MIN), LIMIT_MAX)

\* skip = max(request.skip, 0)
ClampSkip(k) == Max2(k, 0)

\* the listing's page descriptor with a next page announced one record early
ListingPageInclusiveNext(total_count, limit, skip) ==
    [total_count |-> total_count,
     current_page |-> (skip \div limit) + 1,
     total_pages |-> (total_count + limit - 1) \div limit,
     per_page |-> limit,
     has_next |-> skip + limit <= total_count,
     has_previous |-> skip > 0,
     showing_from |-> skip + 1,
     showing_to |-> Min2(skip + limit, total_count)]

\* the listing's page descriptor with the page count rounded down
ListingPageFloor(total_count, limit, skip) ==
    [total_count |-> total_count,
     current_page |-> (skip \div limit) + 1,
     total_pages |-> total_count \div limit,
     per_page |-> limit,
     has_next |-> skip + limit < total_count,
     has_previous |-> skip > 0,
     showing_from |-> skip + 1,
     showing_to |-> Min2(skip + limit, total_count)]

ListingPage(total_count, limit, skip) ==
    [total_count |-> total_count,
     current_page |-> (skip \div limit) + 1,
     total_pages |-> (total_count + limit - 1) \div limit,
     per_page |-> limit,
     has_next |-> skip + limit < total_count,
     has_previous |-> skip > 0,
     showing_from |-> skip + 1,
     showing_to |-> Min2(skip + limit, total_count)]

\* the search's page descriptor without its zero-count first position
SearchPageFromAlways(total_count, limit, skip) ==
    [total_count |-> total_count,
     current_page |-> (skip \div limit) + 1,
     total_pages |-> IF total_count > 0
                     THEN (total_count + limit - 1) \div limit ELSE 1,
     per_page |-> limit,
     has_next |-> skip + limit < total_count,
     has_previous |-> skip > 0,
     showing_from |-> skip + 1,
     showing_to |-> Min2(skip + limit, total_count)]

\* the page descriptor with a zero-based page number
SearchPageZeroBased(total_count, limit, skip) ==
    [total_count |-> total_count,
     current_page |-> skip \div limit,
     total_pages |-> IF total_count > 0
                     THEN (total_count + limit - 1) \div limit ELSE 1,
     per_page |-> limit,
     has_next |-> skip + limit < total_count,
     has_previous |-> skip > 0,
     showing_from |-> IF total_count > 0 THEN skip + 1 ELSE 0,
     showing_to |-> Min2(skip + limit, total_count)]

SearchPage(total_count, limit, skip) ==
    [total_count |-> total_count,
     current_page |-> (skip \div limit) + 1,
     total_pages |-> IF total_count > 0
                     THEN (total_count + limit - 1) \div limit ELSE 1,
     per_page |-> limit,
     has_next |-> skip + limit < total_count,
     has_previous |-> skip > 0,
     showing_from |-> IF total_count > 0 THEN skip + 1 ELSE 0,
     showing_to |-> Min2(skip + limit, total_count)]

ConvertAll(docs) == [i \in 1..Len(docs) |-> convert_object_ids(docs[i])]

\* get_users_data up to the answer of count_documents({})
GetUsersDataCount(limit_in, skip_in, fail) ==
    /\ phase = "authed"
    /\ req.route = "get_users_data"
    /\ ctrlCalls' = ctrlCalls + 1
    /\ body' = [kind |-> "UsersRequest", limit |-> limit_in, skip |-> skip_in]
    /\ IF limit_in = <<>> \/ skip_in = <<>>
       THEN /\ Answer(Wrap500("Failed to fetch users: ", NoneCompare, build))
            /\ queries' = queries
       ELSE /\ queries' = queries + 1
            /\ IF fail
               THEN Answer(Wrap500("Failed to fetch users: ", StoreDown, build))
               ELSE /\ phase' = "handling"
                    /\ resp' = resp
                    /\ loc' = [op |-> "get_users_data", pc |-> "find",
                               limit |-> ClampLimit(limit_in[1]),
                               skip |-> ClampSkip(skip_in[1]),
                               total_count |-> count_documents(store, EmptyDict)]
    /\ UNCHANGED <<build, req, token, user, verified, tasks, store, events>>

\* get_users_data from the page computation to the return
GetUsersDataFind(fail) ==
    /\ phase = "handling"
    /\ loc # NoLoc
    /\ loc.op = "get_users_data"
    /\ queries' = queries + 1
    /\ IF fail
       THEN Answer(Wrap500("Failed to fetch users: ", StoreDown, build))
       ELSE Answer(Returned(
                [kind |-> "users",
                 users |-> ConvertAll(find_page(store, EmptyDict, loc.skip, loc.limit)),
                 page |-> ListingPage(loc.total_count, loc.limit, loc.skip)]))
    /\ UNCHANGED <<build, req, body, token, user, verified, ctrlCalls, tasks, store, events>>

\* search_users_data up to the answer of count_documents(query)
SearchUsersDataCount(search_query, date_filter, membership_filter, session_filter, limit_in, skip_in, fail) ==
    /\ phase = "authed"
    /\ req.route = "search_users_data"
    /\ ctrlCalls' = ctrlCalls + 1
    /\ body' = [kind |-> "UserSearchRequest",
                search_query |-> search_query, date_filter |-> date_filter,
                membership_filter |-> membership_filter,
                session_filter |-> session_filter,
                limit |-> limit_in, skip |-> skip_in]
    /\ IF limit_in = <<>> \/ skip_in = <<>>
       THEN /\ Answer(Wrap500("Failed to search users: ", NoneCompare, build))
            /\ queries' = queries
       ELSE LET query == build_search_query(search_query, date_filter,
                                            membership_filter, session_filter)
            IN  /\ queries' = queries + 1
                /\ IF fail
                   THEN Answer(Wrap500("Failed to search users: ", StoreDown, build))
                   ELSE IF ~QueryValid(query)
                   THEN Answer(Wrap500("Failed to search users: ", BadRegex, build))
                   ELSE /\ phase' = "handling"
                        /\ resp' = resp
                        /\ loc' = [op |-> "search_users_data", pc |-> "find",
                                   limit |-> ClampLimit(limit_in[1]),
                                   skip |-> ClampSkip(skip_in[1]),
                                   search_params |->
                                       [search_query |-> search_query,
                                        date_filter |-> date_filter,
                                        membership_filter |-> membership_filter,
                                        session_filter |-> session_filter],
                                   query |-> query,
                                   total_count |-> count_documents(store, query)]
    /\ UNCHANGED <<build, req, token, user, verified, tasks, store, events>>

\* search_users_data from the page computation to the return
SearchUsersDataFind(fail) ==
    /\ phase = "handling"
    /\ loc # NoLoc
    /\ loc.op = "search_users_data"
    /\ queries' = queries + 1
    /\ IF fail
       THEN Answer(Wrap500("Failed to search users: ", StoreDown, build))
       ELSE Answer(Returned(
                [kind |-> "search",
                 users |-> ConvertAll(find_page(store, loc.query, loc.skip, loc.limit)),
                 page |-> SearchPage(loc.total_count, loc.limit, loc.skip),
                 search_params |-> loc.search_params]))
    /\ UNCHANGED <<build, req, body, token, user, verified, ctrlCalls, tasks, store, events>>

-----------------------------------------------------------------------------
(* The events of Analytics.general_users, and their time.  An instant is a  *)
(* whole number of hours counted from 1 January of BaseYear, 00:00 UTC.     *)

BaseYear == 2024

\* pytz.timezone('Asia/Jakarta'): UTC+7 the year round
WibOffset == 7

\* datetime.now(self.wib_tz): 10 April, 05:00 UTC, which is 12:00 in Jakarta
NowUtc == 2405

RECURSIVE MonthDay(_, _)
\* <<month, day of month>> of the day numbered d from month m on (0 = its 1st)
MonthDay(d, m) ==
    IF d < DaysInMonth(BaseYear, m) THEN <<m, d + 1>>
    ELSE MonthDay(d - DaysInMonth(BaseYear, m), m + 1)

\* the calendar fields of instant h on Jakarta's clock
LocalParts(h) ==
    LET l == h + WibOffset
        md == MonthDay(l \div 24, 1)
    IN  [month |-> md[1], day |-> md[2], hour |-> l % 24]

FMT_HOUR == "%Y-%m-%d %H:00"
FMT_DAY == "%Y-%m-%d"
FMT_MONTH == "%Y-%m"

\* {"$dateToString": {"format": f, "date": h, "timezone": "Asia/Jakarta"}}
dateToString(format, h) ==
    LET p == LocalParts(h)
        ym == Pad2(BaseYear \div 100) \o Pad2(BaseYear % 100) \o <<"-">>
              \o Pad2(p.month)
        ymd == ym \o <<"-">> \o Pad2(p.day)
    IN  CASE format = FMT_MONTH -> ym
          [] format = FMT_DAY -> ymd
          [] format = FMT_HOUR -> ymd \o <<" ">> \o Pad2(p.hour) \o <<":", "0", "0">>

\* a grouping without the hourly step
DateGroupingNoHour(timeframe) ==
    IF timeframe \in {"1d", "3d", "7d", "30d"} THEN FMT_DAY ELSE FMT_MONTH

get_date_grouping(timeframe) ==
    IF timeframe \in {"1d", "3d"} THEN FMT_HOUR
    ELSE IF timeframe \in {"7d", "30d"} THEN FMT_DAY
    ELSE FMT_MONTH

\* a created_at value: a native date, or a string
DateV(h) == [type |-> "date", h |-> h, text |-> ""]
StringV(text) == [type |-> "string", h |-> 0, text |-> text]

\* the strings $dateFromString can read, with the instant each denotes
DateStringTable ==
    ("2024-04-10T04:00:00Z" :> 2404) @@
    ("2024-04-09T10:00:00Z" :> 2386) @@
    ("2024-01-01T10:00:00Z" :> 10)

\* a conversion that gives the present instant to a string it cannot read
DateFromStringDefaultNow(text) ==
    IF text \in DOMAIN DateStringTable
    THEN [ok |-> TRUE, h |-> DateStringTable[text]]
    ELSE [ok |-> TRUE, h |-> NowUtc]

\* {"$dateFromString": {"dateString": s, "onError": None}}: null when s does
\* not parse
dateFromString(text) ==
    IF text \in DOMAIN DateStringTable
    THEN [ok |-> TRUE, h |-> DateStringTable[text]]
    ELSE [ok |-> FALSE, h |-> 0]

\* $addFields parsed_date: $cond on {"$type": "$created_at"} = "string"
parsed_date(e) ==
    IF e.created_at.type = "string" THEN dateFromString(e.created_at.text)
    ELSE [ok |-> TRUE, h |-> e.created_at.h]

\* {"parsed_date": {"$gte": start_date}}: a null never compares to a date
InWindow(e, start_date) == parsed_date(e).ok /\ parsed_date(e).h >= start_date

Cmd_start == <<"/", "s", "t", "a", "r", "t">>
Cmd_mode == <<"/", "m", "o", "d", "e">>
Url_a == <<"h", "t", "t", "p", "s", ":", "/", "/", "a">>
Txt_hi == <<"h", "i">>

Event(user_id, description, created_at) ==
    [user_id |-> user_id, description |-> description, created_at |-> created_at]

\* the events the bot appends, in the order it appends them
EventCatalogue ==
    << Event("u1", Cmd_start, DateV(NowUtc - 1)),
       Event("u2", Cmd_mode, StringV("10-04-2024 11:30 WIB")),
       Event("u2", Cmd_start, DateV(NowUtc - 14)),
       Event("u2", Url_a, StringV("2024-04-10T04:00:00Z")),
       Event("u3", Cmd_start, DateV(NowUtc - 40 * 24)),
       Event("u2", Txt_hi, StringV("2024-01-01T10:00:00Z")),
       Event("u1", Cmd_start, DateV(NowUtc - 1)),
       Event("u3", Url_a, StringV("")) >>

MaxEvents == 7

NewEvent(n) == EventCatalogue[((n - 1) % Len(EventCatalogue)) + 1]

RECURSIVE SortKeys(_)
\* {"$sort": {"_id": 1}} over distinct text keys
SortKeys(S) ==
    IF S = {} THEN <<>>
    ELSE LET m == CHOOSE k \in S : \A o \in S \ {k} : TextLess(k, o)
         IN  <<m>> \o SortKeys(S \ {m})

\* the overview pipeline without its second $match
OverviewSeriesUnfiltered(ev, start_date, format) ==
    LET kept == {i \in 1..Len(ev) :
                    \/ ev[i].created_at.type = "date" /\ ev[i].created_at.h >= start_date
                    \/ ev[i].created_at.type = "string"}
        key(i) == dateToString(format, parsed_date(ev[i]).h)
        keys == SortKeys({key(i) : i \in kept})
    IN  [j \in 1..Len(keys) |->
            [date |-> keys[j],
             unique_visitors |-> Cardinality({ev[i].user_id : i \in {k \in kept : key(k) = keys[j]}}),
             total_analytics |-> Cardinality({i \in kept : key(i) = keys[j]})]]

\* the overview pipeline: $match, $addFields, $match, $group by (bucket,
\* user), $group by bucket, $sort
OverviewSeries(ev, start_date, format) ==
    LET first == {i \in 1..Len(ev) :
                     \/ ev[i].created_at.type = "date" /\ ev[i].created_at.h >= start_date
                     \/ ev[i].created_at.type = "string"}
        kept == {i \in first : InWindow(ev[i], start_date)}
        key(i) == dateToString(format, parsed_date(ev[i]).h)
        pairs == {<<key(i), ev[i].user_id>> : i \in kept}
        count(pr) == Cardinality({i \in kept : <<key(i), ev[i].user_id>> = pr})
        keys == SortKeys({pr[1] : pr \in pairs})
        RECURSIVE Sum(_)
        Sum(P) == IF P = {} THEN 0
                  ELSE LET pr == CHOOSE x \in P : TRUE
                       IN  count(pr) + Sum(P \ {pr})
    IN  [j \in 1..Len(keys) |->
            [date |-> keys[j],
             unique_visitors |-> Cardinality({pr \in pairs : pr[1] = keys[j]}),
             total_analytics |-> Sum({pr \in pairs : pr[1] = keys[j]})]]


\* a pipeline ending in {"$count": "total"}: no document when nothing is left
CountStage(n) == IF n = 0 THEN <<>> ELSE <<[total |-> n]>>

\* now.replace(hour=0, ...) and now.replace(hour=23, minute=59, ...)
TodayStart == NowUtc - ((NowUtc + WibOffset) % 24)
TodayEnd == TodayStart + 23

\* {"parsed_date": {"$gte": today_start, "$lte": today_end}}
InToday(e) ==
    /\ parsed_date(e).ok
    /\ parsed_date(e).h >= TodayStart
    /\ parsed_date(e).h <= TodayEnd

\* the unique visitors of all time: unique_pipeline without its $match
PeriodUniqueVisitorsAllTime(ev, start_date) ==
    CountStage(Cardinality({ev[i].user_id : i \in {j \in 1..Len(ev) : parsed_date(ev[j]).ok}}))

\* unique_pipeline of the overview: $addFields, $match, $group by user, $count
PeriodUniqueVisitors(ev, start_date) ==
    CountStage(Cardinality({ev[i].user_id : i \in {j \in 1..Len(ev) : InWindow(ev[j], start_date)}}))

\* unique_today_pipeline: $addFields, $match, $group by user, $count
UniqueToday(ev) ==
    CountStage(Cardinality({ev[i].user_id : i \in {j \in 1..Len(ev) : InToday(ev[j])}}))

\* total_today_pipeline: $addFields, $match, $count
TotalToday(ev) == CountStage(Cardinality({i \in 1..Len(ev) : InToday(ev[i])}))

CommandPattern == <<"^", "/">>
UrlPattern == <<"^", "h", "t", "t", "p", "s">>

\* {"$limit": 10}
TopLimit == 10

\* a sort by ascending count
SortByCountAscending(G, tie) ==
    LET before(o, g) ==
            \/ o.count < g.count
            \/ /\ o.count = g.count
               /\ IF tie THEN o.first > g.first ELSE o.first < g.first
    IN  [r \in 1..Cardinality(G) |->
            CHOOSE g \in G : Cardinality({o \in G : before(o, g)}) = r - 1]

\* {"$sort": {"count": -1}}: groups of equal count come in an order the store
\* chooses, here the order of first appearance or its reverse
SortByCount(G, tie) ==
    LET before(o, g) ==
            \/ o.count > g.count
            \/ /\ o.count = g.count
               /\ IF tie THEN o.first > g.first ELSE o.first < g.first
    IN  [r \in 1..Cardinality(G) |->
            CHOOSE g \in G : Cardinality({o \in G : before(o, g)}) = r - 1]

\* the statistics pipeline of get_command_stats and get_url_stats: $addFields,
\* $match, $group by description, $project, $sort, $limit
TopItems(ev, start_date, pattern, tie) ==
    LET kept == {i \in 1..Len(ev) :
                    /\ InWindow(ev[i], start_date)
                    /\ RegexSearch(pattern, ev[i].description, TRUE)}
        of(d) == {i \in kept : ev[i].description = d}
        groups == {[id |-> d,
                    count |-> Cardinality(of(d)),
                    unique_users |-> Cardinality({ev[i].user_id : i \in of(d)}),
                    first |-> SetMin(of(d))] : d \in {ev[i].description : i \in kept}}
    IN  CHOOSE top \in {SubSeq(sorted, 1, Min2(Len(sorted), TopLimit)) :
                          sorted \in {SortByCount(G, tie) : G \in {groups}}} : TRUE

\* the trend pipeline without the lower bound of its $match
TrendAllTime(ev, start_date, description) ==
    LET kept == {i \in 1..Len(ev) :
                    /\ parsed_date(ev[i]).ok
                    /\ ev[i].description = description}
        key(i) == dateToString(FMT_DAY, parsed_date(ev[i]).h)
        keys == SortKeys({key(i) : i \in kept})
    IN  [j \in 1..Len(keys) |->
            [id |-> keys[j], count |-> Cardinality({i \in kept : key(i) = keys[j]})]]

\* trend_pipeline: $addFields, $match, $group by day, $sort
Trend(ev, start_date, description) ==
    LET kept == {i \in 1..Len(ev) :
                    /\ InWindow(ev[i], start_date)
                    /\ ev[i].description = description}
        key(i) == dateToString(FMT_DAY, parsed_date(ev[i]).h)
        keys == SortKeys({key(i) : i \in kept})
    IN  [j \in 1..Len(keys) |->
            [id |-> keys[j], count |-> Cardinality({i \in kept : key(i) = keys[j]})]]

RECURSIVE SumTotal(_)
\* total_analytics += result["total_analytics"], over the rows of the series
SumTotal(rows) ==
    IF rows = <<>> THEN 0 ELSE rows[1].total_analytics + SumTotal(Tail(rows))

-----------------------------------------------------------------------------
(* controllers/HyperBotAnalyticsController.py and the aggregate operations  *)
(* of controllers/HyperBotController.py.  An operation is a coroutine: it   *)
(* runs from one store query to the next, and the store's answer (a result  *)
(* or an exception) resumes it.                                             *)

\* timeframe_map of get_timeframe_filter: days per timeframe
TimeframeDays == DictLiteral(<<<<"1d", 1>>, <<"3d", 3>>, <<"7d", 7>>,
                               <<"30d", 30>>, <<"90d", 90>>>>)

get_timeframe_filter(timeframe) ==
    IF timeframe \notin DOMAIN TimeframeDays
    THEN HTTPException(400, <<"Invalid timeframe">>)
    ELSE Returned(NowUtc - 24 * TimeframeDays[timeframe])

AnalyticsOps == {"get_analytics_overview", "get_daily_active_users",
                 "get_command_stats", "get_url_stats"}
AggregateOps == {"get_analytics_data", "get_quick_stats"}
MaintenanceOps == {"debug_database_structure", "create_sample_analytics_data"}
StepOps == AnalyticsOps \cup AggregateOps \cup MaintenanceOps

\* the operations that call get_timeframe_filter, as their first statement
ValidatesTimeframe(op) ==
    op \in {"get_analytics_overview", "get_command_stats", "get_url_stats"}

\* the operations that run one trend aggregate per row of their first result
TrendOps == {"get_command_stats", "get_url_stats"}

\* the queries of debug_database_structure, as the store's layout decides
DebugPlan(has_analytics, has_general_users, has_docs, has_like) ==
    <<"list_database_names", "list_collection_names">>
    \o (IF has_analytics
        THEN <<"list_collection_names">>
             \o (IF has_general_users
                 THEN <<"count_documents">>
                      \o (IF has_docs THEN <<"find">> ELSE <<>>)
                 ELSE <<>>)
        ELSE <<>>)
    \o (IF has_like THEN <<"count_documents">> ELSE <<>>)

DebugPlans ==
    {DebugPlan(a, g, d, l) : a \in BOOLEAN, g \in BOOLEAN, d \in BOOLEAN,
                             l \in BOOLEAN}

\* the store queries an operation awaits, in program order
FixedPlan(op) ==
    CASE op = "get_analytics_overview" ->
            <<"count_documents", "count_documents", "find_one",
              "aggregate", "aggregate">>
      [] op = "get_daily_active_users" -> <<"aggregate", "aggregate">>
      [] op = "get_command_stats" -> <<"aggregate">>
      [] op = "get_url_stats" -> <<"aggregate">>
      [] op = "get_analytics_data" ->
            <<"aggregate", "aggregate", "aggregate", "aggregate", "aggregate">>
      [] op = "get_quick_stats" -> <<"aggregate">>
      [] op = "create_sample_analytics_data" -> <<"insert_many">>
      [] OTHER -> <<>>

\* the queries of get_analytics_data inside a bare try/except (activity,
\* platform): their failure leaves the slice empty
NoOptionalQueries(op) == {}

OptionalQueries(op) == IF op = "get_analytics_data" THEN {2, 5} ELSE {}

ErrorPrefix(op) ==
    CASE op = "get_analytics_overview" -> "Failed to get analytics overview: "
      [] op = "get_daily_active_users" -> "Failed to get daily active users: "
      [] op = "get_command_stats" -> "Failed to get command stats: "
      [] op = "get_url_stats" -> "Failed to get URL stats: "
      [] op = "get_analytics_summary" -> "Failed to get analytics summary: "
      [] op = "get_analytics_data" -> "Failed to fetch analytics: "
      [] op = "get_quick_stats" -> "Failed to fetch stats: "
      [] OTHER -> ""

\* the coroutine of op, not yet started
Begin(op, timeframe, plan) ==
    [op |-> op, timeframe |-> timeframe, plan |-> plan, pc |-> 0,
     emptied |-> {}, acc |-> <<>>, out |-> NoOut]

\* except Exception as e, at the end of op
OnException(op, e, b) ==
    IF op \in MaintenanceOps
    THEN Returned([kind |-> "error", op |-> op, error |-> StrOf(e, b)])
    ELSE Wrap500(ErrorPrefix(op), e, b)

-----------------------------------------------------------------------------
(* controllers/HyperBotController.py: the five pipelines of                 *)
(* get_analytics_data over the user records                                 *)

F_downloads == "Bot Usage.total_downloads"

\* {"$sum": {"$cond": [{"$eq": ["$Membership.tier", tier]}, 1, 0]}}
CountTier(docs, tier) ==
    Cardinality({i \in 1..Len(docs) : GetField(docs[i], F_tier) = tier})

\* overview_pipeline: one $group with _id None, which gives no row over an
\* empty collection; of its counters the user count and three tier counters
OverviewGroup(docs) ==
    IF docs = <<>> THEN <<>>
    ELSE <<[id |-> NullV,
            total_users |-> Len(docs),
            freemium_users |-> CountTier(docs, T_Freemium),
            premium_users |-> CountTier(docs, T_Premium),
            vip_users |-> CountTier(docs, T_VIP)]>>

RECURSIVE DaysBefore(_, _)
\* the days of year y before its month m
DaysBefore(y, m) == IF m = 1 THEN 0 ELSE DaysBefore(y, m - 1) + DaysInMonth(y, m - 1)

\* the number two digits write
TwoDigits(a, b) == 10 * DigitValue(a) + DigitValue(b)

\* $dateFromString with onError None and no format over the text s: the hour
\* of that midnight counted from the first of January of BaseYear, or -1 for
\* null.  Of the forms the store's parser reads the model knows yyyy-mm-dd of
\* an existing day, the form of every record of the catalogue; a day of
\* another year lies outside every window of the model
DateFromYmd(s) ==
    IF Len(s) # 10 \/ s[5] # "-" \/ s[8] # "-" THEN -1
    ELSE IF \E i \in {1, 2, 3, 4, 6, 7, 9, 10} : ~IsDigit(s[i]) THEN -1
    ELSE IF 100 * TwoDigits(s[1], s[2]) + TwoDigits(s[3], s[4]) # BaseYear THEN -1
    ELSE IF TwoDigits(s[6], s[7]) \notin 1..12 THEN -1
    ELSE IF TwoDigits(s[9], s[10]) \notin 1..DaysInMonth(BaseYear, TwoDigits(s[6], s[7])) THEN -1
    ELSE 24 * (DaysBefore(BaseYear, TwoDigits(s[6], s[7])) + TwoDigits(s[9], s[10]) - 1)

\* {"$substr": ["$User Info.waktu_ditambahkan", 0, 10]}
JoinDay(w) == IF IsText(w) THEN SubSeq(w, 1, Min2(Len(w), 10)) ELSE <<>>

\* the join_date that $addFields gives the record
join_date(doc) == DateFromYmd(JoinDay(GetField(doc, F_waktu)))

ActivityDays == 30

\* $match the last 30 days, $group by day, $sort by day, $limit 30, over the
\* records' join dates jd
ActivityGroups(docs, jd) ==
    LET kept == {i \in 1..Len(docs) : jd[i] >= Max2(0, NowUtc - 24 * ActivityDays) /\ jd[i] <= NowUtc}
        day(j) == CHOOSE h \in {jd[i] : i \in kept} : Cardinality({jd[i] : i \in {k \in kept : jd[k] < h}}) = j - 1
    IN  [j \in 1..Min2(Cardinality({jd[i] : i \in kept}), ActivityDays) |->
            [id |-> JoinDay(docs[CHOOSE i \in kept : jd[i] = day(j)][F_waktu]),
             new_users |-> Cardinality({i \in kept : jd[i] = day(j)})]]

\* activity_pipeline: $addFields join_date, then the stages above
ActivityRows(docs) ==
    CHOOSE rows \in {ActivityGroups(docs, jd) :
                        jd \in {[i \in 1..Len(docs) |-> join_date(docs[i])]}} : TRUE

\* {"$ifNull": ["$Membership.tier", "Freemium"]}
TierOrFreemium(doc) ==
    IF GetField(doc, F_tier) \in {Missing, NullV} THEN T_Freemium
    ELSE GetField(doc, F_tier)

\* membership_pipeline: $group by tier, $sort by count descending; no record
\* of the model carries a download count, so total_downloads sums to 0
MembershipRows(docs, tie) ==
    LET of(t) == {i \in 1..Len(docs) : TierOrFreemium(docs[i]) = t}
        groups == {[id |-> t, count |-> Cardinality(of(t)), first |-> SetMin(of(t))] :
                      t \in {TierOrFreemium(docs[i]) : i \in 1..Len(docs)}}
    IN  CHOOSE rows \in {[j \in 1..Min2(Len(sorted), TopLimit) |->
                            [id |-> sorted[j].id, count |-> sorted[j].count,
                             total_downloads |-> 0]] :
                            sorted \in {SortByCount(G, tie) : G \in {groups}}} : TRUE

\* top_users_pipeline: $match a download count over 0, which a record without
\* the field does not satisfy, $project, $sort, $limit 10
TopUsers(docs) ==
    LET kept == SelectSeq(docs, LAMBDA d : GetField(d, F_downloads) # Missing)
    IN  [j \in 1..Min2(Len(kept), TopLimit) |->
            [k \in DOMAIN kept[j] \cap {F_id, F_username, F_nama_depan, F_downloads} |->
                kept[j][k]]]

\* platform_pipeline: $project the four has_* flags, $group with _id None; no
\* record of the model carries a last_feature_usage list, so $ifNull gives []
PlatformGroup(docs) ==
    IF docs = <<>> THEN <<>>
    ELSE <<[id |-> NullV, telegram_users |-> 0, tiktok_users |-> 0,
            instagram_users |-> 0, doodstream_users |-> 0]>>

\* x[0] if x else {}, then del x["_id"]
FirstWithoutId(x) ==
    IF x = <<>> THEN EmptyDict
    ELSE [k \in DOMAIN x[1] \ {"id"} |-> x[1][k]]

\* the answer of the store to pipeline i of get_analytics_data
AnalyticsPipeline(i, docs, tie) ==
    CASE i = 1 -> OverviewGroup(docs)
      [] i = 2 -> ActivityRows(docs)
      [] i = 3 -> MembershipRows(docs, tie)
      [] i = 4 -> TopUsers(docs)
      [] i = 5 -> PlatformGroup(docs)

\* the dictionary get_analytics_data returns, from the five answers
AnalyticsData(acc) ==
    [overview |-> FirstWithoutId(acc[1].value),
     daily_activity |-> acc[2].value,
     membership_distribution |-> acc[3].value,
     top_users |-> ConvertAll(acc[4].value),
     platform_usage |-> FirstWithoutId(acc[5].value)]

\* what the store answers to query i of the coroutine t, over the events ev
QueryAnswer(t, i, ev, tie) ==
    LET start_date == get_timeframe_filter(t.timeframe).value
    IN  CASE t.op = "get_analytics_overview" /\ i = 4 ->
                OverviewSeries(ev, start_date, get_date_grouping(t.timeframe))
          [] t.op = "get_analytics_overview" /\ i = 5 ->
                PeriodUniqueVisitors(ev, start_date)
          [] t.op = "get_daily_active_users" /\ i = 1 -> UniqueToday(ev)
          [] t.op = "get_daily_active_users" /\ i = 2 -> TotalToday(ev)
          [] t.op = "get_command_stats" /\ i = 1 ->
                TopItems(ev, start_date, CommandPattern, tie)
          [] t.op = "get_url_stats" /\ i = 1 ->
                TopItems(ev, start_date, UrlPattern, tie)
          [] t.op \in TrendOps /\ i > 1 ->
                Trend(ev, start_date, t.acc[1].value[i - 1].id)
          [] t.op = "get_analytics_data" -> AnalyticsPipeline(i, store, tie)
          [] OTHER -> <<>>

\* x[0]["total"] if x else 0
TotalOrZero(x) == IF x # <<>> THEN x[1].total ELSE 0

\* the rows of command_trends and url_trends
TrendRows(t) ==
    [j \in 1..Len(t.acc[1].value) |->
        [name |-> t.acc[1].value[j].id,
         total_count |-> t.acc[1].value[j].count,
         unique_users |-> t.acc[1].value[j].unique_users,
         trend_data |-> [k \in 1..Len(t.acc[j + 1].value) |-> t.acc[j + 1].value[k].count],
         trend_dates |-> [k \in 1..Len(t.acc[j + 1].value) |-> t.acc[j + 1].value[k].id]]]

\* the dictionary an analytics operation returns
ResponseData(t) ==
    CASE t.op = "get_analytics_overview" ->
            [period_unique_visitors |-> TotalOrZero(t.acc[5].value),
             period_total_analytics |-> SumTotal(t.acc[4].value),
             chart_data |-> t.acc[4].value]
      [] t.op = "get_daily_active_users" ->
            [unique_active_today |-> TotalOrZero(t.acc[1].value),
             total_active_today |-> TotalOrZero(t.acc[2].value),
             date |-> dateToString(FMT_DAY, NowUtc)]
      [] t.op \in TrendOps ->
            [items |-> TrendRows(t), total |-> Len(t.acc[1].value)]
      [] t.op = "get_analytics_data" -> AnalyticsData(t.acc)
      [] OTHER -> [items |-> <<>>]

\* seen: how many events the collection held at each query
ResultOf(t, plan) ==
    Returned([kind |-> "result", op |-> t.op, timeframe |-> t.timeframe,
              rows |-> IF t.op \in TrendOps THEN Len(plan) - 1 ELSE 0,
              emptied |-> t.emptied,
              seen |-> [j \in 1..Len(t.acc) |-> t.acc[j].seen],
              data |-> ResponseData(t)])

\* the coroutine t resumes with the store's answer to its query i, and runs
\* to its next await or to its end
Resumed(t, i, fail, answer, n) ==
    LET plan == IF ~fail /\ i = 1 /\ t.op \in TrendOps
                THEN t.plan \o [j \in 1..Len(answer) |-> "aggregate"]
                ELSE t.plan
        u == [t EXCEPT !.pc = i, !.plan = plan,
                       !.emptied = IF fail THEN @ \cup {i} ELSE @,
                       !.acc = Append(@, [seen |-> n, value |-> answer])]
    IN  IF i = Len(plan)
        THEN [u EXCEPT !.out = ResultOf(u, plan)]
        ELSE u

\* the coroutine t runs to its next await or to its end over the events ev:
\* fail is the store's failure of the query it issues, tie the order the store
\* gives equal counts
StepOver(t, fail, tie, b, ev) ==
    LET checked == IF t.pc = 0 /\ ValidatesTimeframe(t.op)
                   THEN get_timeframe_filter(t.timeframe)
                   ELSE Returned(0)
        i == t.pc + 1
    IN  IF checked.kind = "raise"
        THEN [t EXCEPT !.out = OnException(t.op, checked, b)]
        ELSE IF fail /\ i \notin OptionalQueries(t.op)
        THEN [t EXCEPT !.pc = i, !.out = OnException(t.op, StoreDown, b)]
        ELSE LET answers == {IF fail THEN <<>> ELSE QueryAnswer(t, i, ev, tie)}
             IN  CHOOSE u \in {Resumed(t, i, fail, a, Len(ev)) : a \in answers} : TRUE

\* the same, over the collection as it is now
StepTask(t, fail, tie, b) == StepOver(t, fail, tie, b, events)

\* a route function calls its controller operation, which runs to its first
\* await or to its end
CallOperation(op, model, timeframe, plan, fail, tie) ==
    /\ \E t \in {StepTask(Begin(op, timeframe, plan), fail, tie, build)} :
           /\ ctrlCalls' = ctrlCalls + 1
           /\ body' = model
           /\ queries' = queries + t.pc
           /\ IF t.out # NoOut
              THEN Answer(t.out)
              ELSE /\ phase' = "handling"
                   /\ loc' = t
                   /\ resp' = resp
    /\ UNCHANGED <<build, req, token, user, verified, tasks, store, events>>

\* the external bot appends an event
ExternalEvent ==
    /\ Len(events) < MaxEvents
    /\ events' = Append(events, NewEvent(Len(events) + 1))
    /\ UNCHANGED <<build, phase, req, body, token, user, verified, loc, resp,
                   ctrlCalls, queries, tasks, store>>

get_analytics_overview(timeframe, fail) ==
    /\ phase = "authed"
    /\ req.route = "get_analytics_overview"
    /\ CallOperation("get_analytics_overview",
                     [kind |-> "AnalyticsTimeframeRequest", timeframe |-> timeframe],
                     timeframe, FixedPlan("get_analytics_overview"), fail, FALSE)

get_daily_active_users(timeframe, fail) ==
    /\ phase = "authed"
    /\ req.route = "get_daily_active_users"
    /\ CallOperation("get_daily_active_users",
                     [kind |-> "AnalyticsUsersRequest", timeframe |-> timeframe],
                     timeframe, FixedPlan("get_daily_active_users"), fail, FALSE)

get_command_stats(timeframe, fail, tie) ==
    /\ phase = "authed"
    /\ req.route = "get_command_stats"
    /\ CallOperation("get_command_stats",
                     [kind |-> "AnalyticsStatsRequest", timeframe |-> timeframe],
                     timeframe, FixedPlan("get_command_stats"), fail, tie)

get_url_stats(timeframe, fail, tie) ==
    /\ phase = "authed"
    /\ req.route = "get_url_stats"
    /\ CallOperation("get_url_stats",
                     [kind |-> "AnalyticsStatsRequest", timeframe |-> timeframe],
                     timeframe, FixedPlan("get_url_stats"), fail, tie)

get_analytics_data(fail) ==
    /\ phase = "authed"
    /\ req.route = "get_analytics_data"
    /\ CallOperation("get_analytics_data",
                     [kind |-> "AnalyticsRequest"],
                     NoneStr, FixedPlan("get_analytics_data"), fail, FALSE)

get_quick_stats(fail) ==
    /\ phase = "authed"
    /\ req.route = "get_quick_stats"
    /\ CallOperation("get_quick_stats", NoBody,
                     NoneStr, FixedPlan("get_quick_stats"), fail, FALSE)

debug_database_structure(plan, fail) ==
    /\ phase = "authed"
    /\ req.route = "debug_analytics_database"
    /\ CallOperation("debug_database_structure", NoBody,
                     NoneStr, plan, fail, FALSE)

create_sample_analytics_data(fail) ==
    /\ phase = "authed"
    /\ req.route = "create_sample_analytics_data"
    /\ CallOperation("create_sample_analytics_data",
                     NoBody, NoneStr, FixedPlan("create_sample_analytics_data"),
                     fail, FALSE)

\* the store answers the query the operation awaits
StoreAnswers(fail, tie) ==
    /\ phase = "handling"
    /\ loc # NoLoc
    /\ loc.op \in StepOps
    /\ \E t \in {StepTask(loc, fail, tie, build)} :
           /\ queries' = queries + (t.pc - loc.pc)
           /\ IF t.out # NoOut
              THEN Answer(t.out)
              ELSE /\ phase' = "handling"
                   /\ loc' = t
                   /\ resp' = resp
    /\ UNCHANGED <<build, req, body, token, user, verified, ctrlCalls, tasks, store, events>>

\* the four coroutines get_analytics_summary hands to asyncio.gather
SummaryParts ==
    DictLiteral(<<<<"overview", "get_analytics_overview">>,
                  <<"daily_users", "get_daily_active_users">>,
                  <<"top_commands", "get_command_stats">>,
                  <<"top_urls", "get_url_stats">>>>)

\* get_analytics_summary up to await asyncio.gather(...)
get_analytics_summary(timeframe) ==
    /\ phase = "authed"
    /\ req.route = "get_analytics_summary"
    /\ ctrlCalls' = ctrlCalls + 1
    /\ body' = [kind |-> "AnalyticsTimeframeRequest", timeframe |-> timeframe]
    /\ tasks' = [p \in DOMAIN SummaryParts |->
                    Begin(SummaryParts[p], timeframe, FixedPlan(SummaryParts[p]))]
    /\ loc' = [op |-> "get_analytics_summary", timeframe |-> timeframe,
               first |-> NoOut]
    /\ phase' = "handling"
    /\ UNCHANGED <<build, req, token, user, verified, resp, queries, store, events>>

\* one gathered coroutine runs to its next await or to its end; gather keeps
\* the first exception and does not cancel the other coroutines
GatheredStep(p, fail, tie) ==
    /\ p \in DOMAIN tasks
    /\ tasks[p].out = NoOut
    /\ \E t \in {StepTask(tasks[p], fail, tie, build)} :
           /\ tasks' = [tasks EXCEPT ![p] = t]
           /\ ctrlCalls' = ctrlCalls + (IF tasks[p].pc = 0 THEN 1 ELSE 0)
           /\ queries' = queries + (t.pc - tasks[p].pc)
           /\ loc' = IF /\ phase = "handling"
                        /\ t.out.kind = "raise"
                        /\ loc.first = NoOut
                     THEN [loc EXCEPT !.first = t.out]
                     ELSE loc
    /\ UNCHANGED <<build, phase, req, body, token, user, verified, resp, store, events>>

\* await asyncio.gather(...) resumes get_analytics_summary
GatherResumes ==
    /\ phase = "handling"
    /\ loc # NoLoc
    /\ loc.op = "get_analytics_summary"
    /\ \/ loc.first # NoOut
       \/ \A p \in DOMAIN tasks : tasks[p].out.kind = "return"
    /\ IF loc.first # NoOut
       THEN Answer(Wrap500(ErrorPrefix("get_analytics_summary"), loc.first, build))
       ELSE Answer(Returned([kind |-> "summary", timeframe |-> loc.timeframe,
                             parts |-> [p \in DOMAIN tasks |-> tasks[p].out.value]]))
    /\ UNCHANGED <<build, req, body, token, user, verified, ctrlCalls, queries,
                   tasks, store, events>>

-----------------------------------------------------------------------------
(* The listing and search routes, under a valid bearer token *)

GoodBearer == BearerPrefix \o <<"g">>
Txt_a == <<"a">>
Txt_dotstar == <<".", "*">>
Txt_star == <<"*">>
BadDate == <<"1", "3", "-", "1", "3", "-", "2", "0", "2", "4">>
Feb30 == <<"2", "0", "2", "4", "-", "0", "2", "-", "3", "0">>
Jan5Short == <<"2", "0", "2", "4", "-", "1", "-", "5">>
Txt_vip == <<"v", "i", "p">>

SearchTexts == {NoneSeq, <<>>, Txt_a, Txt_dotstar, Txt_star}
DateFilters == {NoneSeq, Jan05, BadDate, Feb30, Jan5Short}
MembershipFilters == {NoneSeq, Txt_vip}
SessionFilters == {NoneStr, "with_session", "without_session"}

\* listing and search over every page geometry, with at most a search text
NextUsers ==
    \/ \E route \in {"get_users_data", "search_users_data"} :
          Receive(route, GoodBearer, <<>>)
    \/ get_current_user
    \/ ExternalAppend
    \/ \E l \in LimitInputs, k \in SkipInputs, fail \in BOOLEAN :
          GetUsersDataCount(l, k, fail)
    \/ \E fail \in BOOLEAN : GetUsersDataFind(fail)
    \/ \E sq \in {NoneSeq, Txt_a}, l \in LimitInputs, k \in SkipInputs,
          fail \in BOOLEAN :
          SearchUsersDataCount(sq, NoneSeq, NoneSeq, NoneStr, l, k, fail)
    \/ \E fail \in BOOLEAN : SearchUsersDataFind(fail)

SpecUsers == Init /\ [][NextUsers]_vars

\* search over every combination of filters, on two page sizes
NextSearch ==
    \/ Receive("search_users_data", GoodBearer, <<>>)
    \/ get_current_user
    \/ ExternalAppend
    \/ \E sq \in SearchTexts, df \in DateFilters, mf \in MembershipFilters,
          sf \in SessionFilters, l \in {<<2>>, <<LIMIT_MAX>>}, k \in {<<0>>, <<1>>},
          fail \in BOOLEAN :
          SearchUsersDataCount(sq, df, mf, sf, l, k, fail)
    \/ \E fail \in BOOLEAN : SearchUsersDataFind(fail)

SpecSearch == Init /\ [][NextSearch]_vars

-----------------------------------------------------------------------------
(* The requests a client may send *)

Bearer(t) == BearerPrefix \o t

\* Authorization values that are not a bearer token: the scheme alone (the
\* server strips trailing blanks), a lower-case scheme, another scheme
Hdr_bearer_only == <<"B", "e", "a", "r", "e", "r">>
Hdr_lower_bearer == <<"b", "e", "a", "r", "e", "r", " ", "g">>
Hdr_basic == <<"B", "a", "s", "i", "c", " ", "g">>

\* "q" is not a JWT at all
AuthHeaders ==
    {<<>>, Hdr_bearer_only, Hdr_lower_bearer, Hdr_basic}
    \cup {Bearer(t) : t \in Tokens \cup {<<"q">>}}

Ck_h == <<"a", "u", "t", "h", "-", "t", "o", "k", "e", "n", "=", "h">>
Ck_mid_h ==
    <<"s", "i", "d", "=", "1", ";", " ",
      "a", "u", "t", "h", "-", "t", "o", "k", "e", "n", "=", "h", ";", " ", "k", "=", "v">>
Ck_empty == <<"a", "u", "t", "h", "-", "t", "o", "k", "e", "n", "=">>
Ck_other == <<"s", "i", "d", "=", "1">>
Ck_expired == <<"a", "u", "t", "h", "-", "t", "o", "k", "e", "n", "=", "x">>
Ck_second ==
    <<"a", "u", "t", "h", "-", "t", "o", "k", "e", "n", "=", ";", "a", "u", "t", "h", "-", "t", "o", "k", "e", "n", "=", "h">>

Cookies == {<<>>, Ck_h, Ck_mid_h, Ck_empty, Ck_other, Ck_expired, Ck_second}

\* routes/apiv1_routes.py: the route functions of the /apiv1 router
Routes ==
    {"get_users_data", "search_users_data", "get_analytics_data",
     "get_quick_stats", "get_analytics_overview", "get_daily_active_users",
     "get_command_stats", "get_url_stats", "get_analytics_summary",
     "debug_analytics_database", "create_sample_analytics_data"}

TimeframeRoutes ==
    {"get_analytics_overview", "get_daily_active_users", "get_command_stats",
     "get_url_stats", "get_analytics_summary"}

Timeframes == {"1d", "3d", "7d", "30d", "90d", "2d", "week"}

\* every route, under every Authorization and cookie header
NextGate ==
    \/ \E route \in Routes, a \in AuthHeaders, c \in Cookies : Receive(route, a, c)
    \/ get_current_user
    \/ GetUsersDataCount(<<2>>, <<0>>, FALSE)
    \/ GetUsersDataFind(FALSE)
    \/ SearchUsersDataCount(Txt_a, NoneSeq, NoneSeq, NoneStr, <<2>>, <<0>>, FALSE)
    \/ SearchUsersDataFind(FALSE)
    \/ get_analytics_data(FALSE)
    \/ get_quick_stats(FALSE)
    \/ \E tf \in {"7d", "2d"} : get_analytics_overview(tf, FALSE)
    \/ \E tf \in {"7d", "2d"} : get_daily_active_users(tf, FALSE)
    \/ \E tf \in {"7d", "2d"} : get_command_stats(tf, FALSE, FALSE)
    \/ \E tf \in {"7d", "2d"} : get_url_stats(tf, FALSE, FALSE)
    \/ \E tf \in {"7d", "2d"} : get_analytics_summary(tf)
    \/ \E plan \in DebugPlans : debug_database_structure(plan, FALSE)
    \/ create_sample_analytics_data(FALSE)
    \/ StoreAnswers(FALSE, FALSE)
    \/ \E p \in DOMAIN SummaryParts : GatheredStep(p, FALSE, FALSE)
    \/ GatherResumes

\* the server starts on a loaded collection
InitLoaded ==
    Start([i \in 1..MaxEvents |-> NewEvent(i)]) /\ Len(store) = MaxDocs

SpecGate == InitLoaded /\ [][NextGate]_vars

\* the analytics routes under a valid bearer token, over every timeframe,
\* every store failure and either order of equal counts
NextAnalytics ==
    \/ \E route \in Routes \ {"get_users_data", "search_users_data"} :
          Receive(route, GoodBearer, <<>>)
    \/ get_current_user
    \/ \E fail \in BOOLEAN : get_analytics_data(fail)
    \/ \E fail \in BOOLEAN : get_quick_stats(fail)
    \/ \E tf \in Timeframes, fail \in BOOLEAN : get_analytics_overview(tf, fail)
    \/ \E tf \in Timeframes, fail \in BOOLEAN : get_daily_active_users(tf, fail)
    \/ \E tf \in Timeframes, fail \in BOOLEAN, tie \in BOOLEAN :
          get_command_stats(tf, fail, tie)
    \/ \E tf \in Timeframes, fail \in BOOLEAN, tie \in BOOLEAN :
          get_url_stats(tf, fail, tie)
    \/ \E tf \in {"7d", "2d"} : get_analytics_summary(tf)
    \/ \E plan \in DebugPlans, fail \in BOOLEAN : debug_database_structure(plan, fail)
    \/ \E fail \in BOOLEAN : create_sample_analytics_data(fail)
    \/ \E fail \in BOOLEAN, tie \in BOOLEAN : StoreAnswers(fail, tie)
    \/ \E p \in DOMAIN SummaryParts, fail \in BOOLEAN, tie \in BOOLEAN :
          GatheredStep(p, fail, tie)
    \/ GatherResumes

SpecAnalytics == InitLoaded /\ [][NextAnalytics]_vars

ValidTimeframes == DOMAIN TimeframeDays

\* the four event statistics under a valid bearer token, while the bot keeps
\* appending events
NextEvents ==
    \/ \E route \in AnalyticsOps : Receive(route, GoodBearer, <<>>)
    \/ get_current_user
    \/ ExternalEvent
    \/ \E tf \in ValidTimeframes, fail \in BOOLEAN : get_analytics_overview(tf, fail)
    \/ \E fail \in BOOLEAN : get_daily_active_users("7d", fail)
    \/ \E tf \in ValidTimeframes, fail \in BOOLEAN, tie \in BOOLEAN :
          get_command_stats(tf, fail, tie)
    \/ \E tf \in ValidTimeframes, fail \in BOOLEAN, tie \in BOOLEAN :
          get_url_stats(tf, fail, tie)
    \/ \E fail \in BOOLEAN, tie \in BOOLEAN : StoreAnswers(fail, tie)

\* the server starts on empty collections
InitEmpty == Init /\ Len(store) = 0

SpecEvents == InitEmpty /\ [][NextEvents]_vars

Cmd(c) == <<"/", c>>
Url_upper_b == <<"H", "T", "T", "P", "S", ":", "/", "/", "b">>
SingleLetters == <<"c", "d", "e", "f", "g", "h", "i", "j", "k", "l">>

\* events of thirteen commands and two links: more commands than the limit
\* keeps, counts that tie, actors that repeat, days that differ
TopCatalogue ==
    << Event("u1", Cmd("a"), DateV(NowUtc - 1)),
       Event("u1", Cmd("b"), DateV(NowUtc - 2)),
       Event("u2", Cmd("a"), DateV(NowUtc - 30)) >>
    \o [k \in 1..Len(SingleLetters) |->
           Event("u1", Cmd(SingleLetters[k]), DateV(NowUtc - k))]
    \o << Event("u1", Cmd("b"), DateV(NowUtc - 3)),
          Event("u1", Cmd("a"), StringV("2024-04-10T04:00:00Z")),
          Event("u1", Url_a, DateV(NowUtc - 1)),
          Event("u2", Url_upper_b, DateV(NowUtc - 2)),
          Event("u3", Cmd("m"), StringV("10-04-2024 11:30 WIB")),
          Event("u2", Url_a, DateV(NowUtc - 30)),
          Event("u2", Cmd("l"), DateV(NowUtc - 30)) >>

MaxTopEvents == 20

\* the server starts on a general_users collection of any length up to
\* MaxTopEvents
InitTop ==
    /\ \E n \in 0..MaxTopEvents :
          Start([i \in 1..n |-> TopCatalogue[((i - 1) % Len(TopCatalogue)) + 1]])
    /\ Len(store) = 0

\* command and link statistics over collections that exceed the limit
NextTop ==
    \/ \E route \in TrendOps : Receive(route, GoodBearer, <<>>)
    \/ get_current_user
    \/ \E tf \in {"1d", "7d"}, fail \in BOOLEAN, tie \in BOOLEAN :
          get_command_stats(tf, fail, tie)
    \/ \E tf \in {"1d", "7d"}, fail \in BOOLEAN, tie \in BOOLEAN :
          get_url_stats(tf, fail, tie)
    \/ \E fail \in BOOLEAN, tie \in BOOLEAN : StoreAnswers(fail, tie)

SpecTop == InitTop /\ [][NextTop]_vars

Atoms == {StrV("a"), IntV("7"), ObjectIdV("5f")}

\* the dicts of at most one key and the lists of at most one item over V
Containers(V) ==
    {DictV(<<>>), ListV(<<>>)}
    \cup {DictV(<<Item("k", v)>>) : v \in V}
    \cup {ListV(<<Item("", v)>>) : v \in V}

\* values nested up to MaxDepth containers deep
RECURSIVE ValuesOfDepth(_)
ValuesOfDepth(n) ==
    IF n = 0 THEN Atoms ELSE Atoms \cup Containers(ValuesOfDepth(n - 1))

MaxDepth == 3

\* the documents handed to convert_object_ids: a dict of an _id and one
\* nested value
NestedDocs ==
    {DictV(<<Item("_id", id), Item("k", v)>>) :
        id \in {ObjectIdV("5e"), StrV("5e")}, v \in ValuesOfDepth(MaxDepth)}

MaxConverts == 2

\* a document of the store is about to be normalized
InitConvert ==
    /\ build \in Builds
    /\ phase = "idle"
    /\ req = [route |-> "none", authorization |-> <<>>, cookie |-> <<>>]
    /\ body = NoBody
    /\ token = NoneSeq
    /\ user = NoUser
    /\ verified = FALSE
    /\ \E d \in NestedDocs :
          loc = [op |-> "convert_object_ids", input |-> d, doc |-> d, calls |-> 0]
    /\ resp = NoResp
    /\ ctrlCalls = 0
    /\ queries = 0
    /\ tasks = NoTasks
    /\ store = <<>>
    /\ events = <<>>

\* doc = convert_object_ids(doc)
ConvertStep ==
    /\ loc # NoLoc
    /\ loc.op = "convert_object_ids"
    /\ loc.calls < MaxConverts
    /\ loc' = [loc EXCEPT !.doc = ConvertObjectIds(loc.doc), !.calls = @ + 1]
    /\ UNCHANGED <<build, phase, req, body, token, user, verified, resp,
                   ctrlCalls, queries, tasks, store, events>>

NextConvert == ConvertStep

SpecConvert == InitConvert /\ [][NextConvert]_vars

-----------------------------------------------------------------------------
(* Properties of the gate *)

\* the gate has run for the current request
Gated == phase \in {"authed", "handling", "responded"}

\* the token decodes under the server's secret and names a subject
Acceptable(t) ==
    /\ ~FalsySeq(t)
    /\ jwt_decode(t).kind = "return"
    /\ ~Falsy(DictGet(jwt_decode(t).value, "userId"))

\* C1: on every /apiv1 route no controller operation is invoked and no store
\* query is issued unless verify_jwt_token succeeded for the request; a
\* request whose verification fails ends with HTTP 401, no operation invoked
\* and no query issued.
C1_GateBeforeController ==
    /\ (ctrlCalls > 0 \/ queries > 0) => (verified /\ Acceptable(token))
    /\ (Gated /\ ~Acceptable(token)) =>
          /\ ~verified
          /\ phase = "responded"
          /\ resp.status = 401
          /\ ctrlCalls = 0
          /\ queries = 0

C1_Witness ==
    /\ phase = "responded"
    /\ req.route = "create_sample_analytics_data"
    /\ req.authorization = Bearer(<<"s">>)
    /\ req.cookie = Ck_h
    /\ resp.status = 401
    /\ ctrlCalls = 0

\* t is the value of an auth-token= pair of the cookie header c
IsAuthTokenCookie(c, t) ==
    /\ t # <<>>
    /\ \A j \in 1..Len(t) : t[j] # ";"
    /\ \E i \in 1..Len(c) :
          LET k == Len(AuthTokenKey)
              e == i + k + Len(t)
          IN  /\ e - 1 <= Len(c)
              /\ SubSeq(c, i, i + k - 1) = AuthTokenKey
              /\ SubSeq(c, i + k, e - 1) = t
              /\ e = Len(c) + 1 \/ c[e] = ";"

\* C2: extract_jwt_from_request gives the Authorization header priority: with
\* a 'Bearer <h>' header the token is h whatever the cookie; a token that is
\* not the header's comes from an auth-token cookie, and only when the header
\* holds no bearer token; with neither header there is no token.
C2_HeaderPriority ==
    Gated =>
        LET a == req.authorization
            c == req.cookie
        IN  /\ StartsWith(a, BearerPrefix) =>
                  token = SubSeq(a, Len(BearerPrefix) + 1, Len(a))
            /\ (~StartsWith(a, BearerPrefix) /\ token # NoneSeq) =>
                  IsAuthTokenCookie(c, token)
            /\ (~StartsWith(a, BearerPrefix) /\ c = <<>>) => token = NoneSeq

C2_Witness ==
    /\ phase = "authed"
    /\ req.authorization = Bearer(<<"g">>)
    /\ req.cookie = Ck_mid_h
    /\ token = <<"g">>
    /\ DictGet(user, "userId") = "u1"

\* the token is well formed, signed with the server's secret, and expired
ExpiredToken(t) ==
    LET i == TokenInfo(t)
    IN  i.segments /\ i.alg = JWT_ALGORITHM /\ i.key = JWT_SECRET /\ i.expired

\* C3: an expired token is rejected with 401 and the expiry reason, a request
\* without a token with 401 and the no-token reason; the two reasons differ.
C3_ExpiredAndNoTokenReasons ==
    /\ (Gated /\ ExpiredToken(token)) =>
          /\ phase = "responded"
          /\ resp.status = 401
          /\ resp.detail = ExpiredDetail
    /\ (Gated /\ token = NoneSeq) =>
          /\ phase = "responded"
          /\ resp.status = 401
          /\ resp.detail = NoTokenDetail
    /\ ExpiredDetail # NoTokenDetail

C3_Witness ==
    /\ phase = "responded"
    /\ req.authorization = Hdr_basic
    /\ req.cookie = Ck_expired
    /\ token = <<"x">>
    /\ resp.status = 401
    /\ resp.detail = ExpiredDetail

\* the token is well formed but signed with another secret
SignatureMismatch(t) ==
    LET i == TokenInfo(t)
    IN  i.segments /\ i.alg = JWT_ALGORITHM /\ i.key # JWT_SECRET

\* C4: a well-formed token whose signature does not match the server secret
\* is rejected with 401 and the dedicated signature-mismatch reason, which is
\* neither the generic invalid-token reason nor the expiry reason.
C4_SignatureMismatchReason ==
    (Gated /\ SignatureMismatch(token)) =>
        /\ phase = "responded"
        /\ resp.status = 401
        /\ resp.detail = SignatureDetail
        /\ resp.detail # ExpiredDetail
        /\ resp.detail[1] # InvalidTokenPrefix

\* the token decodes, and its payload has no userId or an empty one
DecodesWithoutSubject(t) ==
    /\ ~FalsySeq(t)
    /\ jwt_decode(t).kind = "return"
    /\ Falsy(DictGet(jwt_decode(t).value, "userId"))

\* C5: a token that decodes but carries no userId is rejected with 401 and a
\* reason that names the missing userId; the payload is the identity only
\* when its userId is present and non-empty.
C5_MissingSubjectReason ==
    /\ (Gated /\ DecodesWithoutSubject(token)) =>
          /\ phase = "responded"
          /\ resp.status = 401
          /\ \E i \in 1..Len(resp.detail) :
                resp.detail[i] = MissingUserIdDetail[1]
    /\ verified =>
          /\ user = jwt_decode(token).value
          /\ ~Falsy(DictGet(user, "userId"))

\* C6: an authenticated request to analytics/overview, users, commands, urls
\* or summary whose timeframe is not one of 1d, 3d, 7d, 30d, 90d is answered
\* with HTTP 400.
C6_InvalidTimeframe400 ==
    (/\ phase = "responded"
     /\ verified
     /\ req.route \in TimeframeRoutes
     /\ body.timeframe \notin {"1d", "3d", "7d", "30d", "90d"}) =>
        resp.status = 400

-----------------------------------------------------------------------------
(* Properties of the listing and search operations *)

PagedOps == {"get_users_data", "search_users_data"}

Paged200 ==
    /\ phase = "responded"
    /\ resp.status = 200
    /\ resp.body.kind \in {"users", "search"}

\* the single-filter predicates the four inputs call for
OnlyText(b) == build_search_query(b.search_query, NoneSeq, NoneSeq, NoneStr)
OnlyDate(b) == build_search_query(NoneSeq, b.date_filter, NoneSeq, NoneStr)
OnlyTier(b) == build_search_query(NoneSeq, NoneSeq, b.membership_filter, NoneStr)
OnlySession(b) == build_search_query(NoneSeq, NoneSeq, NoneSeq, b.session_filter)

\* C7: the predicate build_search_query returns keeps every clause its inputs
\* call for: a record it selects satisfies the search-text clause, the date
\* clause, the tier clause and the session clause, each taken alone (for a
\* search text that is a well-formed pattern).
C7_ClausesNotOverwritten ==
    (/\ phase = "handling"
     /\ loc.op = "search_users_data"
     /\ QueryValid(OnlyText(body))) =>
        \A i \in 1..Len(Catalogue) :
            Matches(Catalogue[i], loc.query) =>
                /\ Matches(Catalogue[i], OnlyText(body))
                /\ Matches(Catalogue[i], OnlyDate(body))
                /\ Matches(Catalogue[i], OnlyTier(body))
                /\ Matches(Catalogue[i], OnlySession(body))

HoldsLiterally(doc, text) ==
    \E i \in 1..Len(SearchFields) :
        /\ IsText(GetField(doc, SearchFields[i]))
        /\ ContainsText(GetField(doc, SearchFields[i]), text)

\* C8: the search text of /users/search is matched literally: a record the
\* predicate selects, and a record the response returns, holds the text as
\* written in one of the searched fields.  Stated for requests without a
\* session filter, so that the search-text clause is the one in the predicate.
C8_SearchTextLiteral ==
    /\ (/\ phase = "handling"
        /\ loc.op = "search_users_data"
        /\ ~FalsySeq(body.search_query)
        /\ body.session_filter = NoneStr) =>
            \A i \in 1..Len(store) :
                Matches(store[i], loc.query) =>
                    HoldsLiterally(store[i], body.search_query)
    /\ (/\ Paged200
        /\ resp.body.kind = "search"
        /\ ~FalsySeq(body.search_query)
        /\ body.session_filter = NoneStr) =>
            \A i \in 1..Len(resp.body.users) :
                HoldsLiterally(resp.body.users[i], body.search_query)

LimitClampedTo(given, effective) ==
    /\ effective \in 1..100
    /\ given < 1 => effective = 1
    /\ given > 100 => effective = 100
    /\ given \in 1..100 => effective = given

SkipClampedTo(given, effective) ==
    /\ effective >= 0
    /\ given >= 0 => effective = given
    /\ given < 0 => effective = 0

\* C9: for every integer limit and skip given to the listing or the search
\* operation, the limit used for the query and reported as per_page is the
\* given one clamped to [1,100] and the skip used is max(skip, 0).
C9_PaginationClamped ==
    /\ (phase = "handling" /\ loc.op \in PagedOps) =>
          /\ LimitClampedTo(body.limit[1], loc.limit)
          /\ SkipClampedTo(body.skip[1], loc.skip)
    /\ Paged200 =>
          /\ LimitClampedTo(body.limit[1], resp.body.page.per_page)
          /\ Len(resp.body.users) <= resp.body.page.per_page
          /\ resp.body.page.has_previous = (body.skip[1] > 0)
          /\ resp.body.kind = "users" =>
                SkipClampedTo(body.skip[1], resp.body.page.showing_from - 1)

C9_Witness ==
    /\ Paged200
    /\ resp.body.kind = "search"
    /\ body.limit[1] > 100
    /\ body.skip[1] < 0
    /\ resp.body.page.per_page = 100
    /\ Len(resp.body.users) > 0

\* C10: both operations report currentPage = floor(skip/limit) + 1 and
\* showingTo = min(skip + limit, totalCount), for the skip and limit in effect.
C10_PageArithmetic ==
    Paged200 =>
        LET page == resp.body.page
            limit == page.per_page
            skip == IF body.skip[1] > 0 THEN body.skip[1] ELSE 0
        IN  /\ (page.current_page - 1) * limit <= skip
            /\ skip < page.current_page * limit
            /\ page.showing_to <= skip + limit
            /\ page.showing_to <= page.total_count
            /\ page.showing_to \in {skip + limit, page.total_count}

C10_Witness ==
    /\ Paged200
    /\ resp.body.kind = "search"
    /\ resp.body.page.current_page >= 2
    /\ resp.body.page.has_next
    /\ resp.body.page.showing_to < resp.body.page.total_count

\* n = ceil(a / b), for b > 0
IsCeilDiv(n, a, b) == n * b >= a /\ (n - 1) * b < a

\* C11: total_pages is ceil(total_count / limit) whenever total_count > 0, on
\* both paths; with total_count = 0 the search reports 1 page and the listing
\* reports 0 pages.
C11_TotalPages ==
    Paged200 =>
        LET page == resp.body.page
        IN  /\ page.per_page \in 1..100
            /\ page.total_count > 0 =>
                  IsCeilDiv(page.total_pages, page.total_count, page.per_page)
            /\ (page.total_count = 0 /\ resp.body.kind = "search") =>
                  page.total_pages = 1
            /\ (page.total_count = 0 /\ resp.body.kind = "users") =>
                  page.total_pages = 0

C11_Witness ==
    /\ Paged200
    /\ resp.body.kind = "users"
    /\ resp.body.page.total_count = 5
    /\ resp.body.page.per_page = 2
    /\ resp.body.page.total_pages = 3

\* the page descriptor the other path computes for the values of this response
OtherPathPage ==
    LET page == resp.body.page
        skip == ClampSkip(body.skip[1])
    IN  IF resp.body.kind = "users"
        THEN SearchPage(page.total_count, page.per_page, skip)
        ELSE ListingPage(page.total_count, page.per_page, skip)

\* C12 as stated: for every (total_count, limit, skip) the page descriptor of
\* the listing equals the page descriptor of the search.
C12_SamePageMetadata ==
    Paged200 => resp.body.page = OtherPathPage

\* C12, amended: the two page descriptors are equal whenever total_count > 0;
\* with total_count = 0 they agree on everything but total_pages (listing 0,
\* search 1) and showing_from (listing skip + 1, search 0).
C12_SamePageMetadataNonEmpty ==
    Paged200 =>
        LET page == resp.body.page
            other == OtherPathPage
        IN  /\ page.total_count > 0 => page = other
            /\ page.total_count = 0 =>
                  /\ [page EXCEPT !.total_pages = 0, !.showing_from = 0]
                        = [other EXCEPT !.total_pages = 0, !.showing_from = 0]
                  /\ page.total_pages # other.total_pages
                  /\ page.showing_from # other.showing_from

C12_Witness ==
    /\ Paged200
    /\ resp.body.kind = "users"
    /\ resp.body.page.total_count > 0
    /\ resp.body.page.has_next
    /\ resp.body.page.has_previous
    /\ resp.body.page = OtherPathPage

\* C13: with total_count = 0 both paths report has_next = FALSE,
\* has_previous = (skip > 0) and showing_to = 0, and the search reports
\* showing_from = 0, for every limit in [1,100] and skip >= 0.
C13_ZeroCountBoundary ==
    (Paged200 /\ resp.body.page.total_count = 0) =>
        LET page == resp.body.page
            skip == IF body.skip[1] > 0 THEN body.skip[1] ELSE 0
        IN  /\ ~page.has_next
            /\ page.has_previous = (skip > 0)
            /\ page.showing_to = 0
            /\ resp.body.kind = "search" => page.showing_from = 0

C13_Witness ==
    /\ Paged200
    /\ resp.body.kind = "search"
    /\ resp.body.page.total_count = 0
    /\ body.skip[1] > 0
    /\ resp.body.page.has_previous
    /\ resp.body.page.showing_from = 0

SearchHandling == phase = "handling" /\ loc.op = "search_users_data"

\* the predicate the request's other filters call for
WithoutDate(b) ==
    build_search_query(b.search_query, NoneSeq, b.membership_filter,
                       b.session_filter)

\* C14: a date filter that is not a valid YYYY-MM-DD calendar date is
\* ignored: the predicate has no registration-date clause, its other clauses
\* are those of the same request without a date filter, and no error comes of
\* it; a valid date adds to them one clause that matches exactly the
\* registration dates starting with that date.
C14_BadDateIgnored ==
    /\ (SearchHandling /\ body.date_filter \in {BadDate, Feb30}) =>
          /\ F_waktu \notin DOMAIN loc.query
          /\ loc.query = WithoutDate(body)
    /\ (SearchHandling /\ body.date_filter \in {Jan05, Jan5Short}) =>
          /\ DOMAIN loc.query = DOMAIN WithoutDate(body) \cup {F_waktu}
          /\ \A k \in DOMAIN WithoutDate(body) : loc.query[k] = WithoutDate(body)[k]
          /\ \A i \in 1..Len(Catalogue) :
                MatchClause(GetField(Catalogue[i], F_waktu), loc.query[F_waktu])
                    = StartsWith(GetField(Catalogue[i], F_waktu), Jan05)
    /\ (/\ phase = "responded"
        /\ body.kind = "UserSearchRequest"
        /\ body.date_filter \in {BadDate, Feb30}
        /\ resp.status # 200) =>
          \/ resp.detail = Wrap500("Failed to search users: ", StoreDown, build).msg
          \/ /\ resp.detail = Wrap500("Failed to search users: ", BadRegex, build).msg
             /\ ~QueryValid(WithoutDate(body))

C14_Witness ==
    /\ SearchHandling
    /\ body.date_filter = BadDate
    /\ body.membership_filter = Txt_vip
    /\ DOMAIN loc.query = {F_tier}
    /\ loc.total_count > 0

NoFilters(b) ==
    /\ b.search_query \in {NoneSeq, <<>>}
    /\ b.date_filter \in {NoneSeq, <<>>}
    /\ b.membership_filter \in {NoneSeq, <<>>}
    /\ b.session_filter \in {NoneStr, ""}

\* C15: with no optional filter set build_search_query returns the empty
\* predicate, which matches every record, so that the search counts what the
\* unfiltered listing counts over the same collection.
C15_NoFiltersMatchAll ==
    (SearchHandling /\ NoFilters(body)) =>
        /\ loc.query = EmptyDict
        /\ \A i \in 1..Len(Catalogue) : Matches(Catalogue[i], loc.query)
        /\ count_documents(store, loc.query) = Len(store)
        /\ count_documents(store, loc.query) = count_documents(store, EmptyDict)
        /\ loc.total_count <= Len(store)

C15_Witness ==
    /\ Paged200
    /\ resp.body.kind = "search"
    /\ NoFilters(body)
    /\ body.search_query = <<>>
    /\ resp.body.page.total_count = MaxDocs
    /\ Len(store) = MaxDocs

\* one of the three locations holds a credential: present, not null, not ""
HasCredential(doc) ==
    \E i \in 1..Len(SessionFields) :
        GetField(doc, SessionFields[i]) \notin {Missing, NullV, <<>>}

SessionOnly(b) ==
    /\ b.search_query \in {NoneSeq, <<>>}
    /\ b.date_filter \in {NoneSeq, <<>>}
    /\ b.membership_filter \in {NoneSeq, <<>>}

\* C16: with the presence filter a record is selected if and only if one of
\* the three locations holds a credential that exists and is neither empty
\* nor null; with the absence filter if and only if none does; so every
\* record is selected by exactly one of the two filters.
C16_SessionFilterSemantics ==
    (SearchHandling /\ SessionOnly(body)) =>
        \A i \in 1..Len(Catalogue) :
            LET doc == Catalogue[i]
            IN  /\ body.session_filter = "with_session" =>
                      (Matches(doc, loc.query) = HasCredential(doc))
                /\ body.session_filter = "without_session" =>
                      (Matches(doc, loc.query) = ~HasCredential(doc))
                /\ body.session_filter \in {"with_session", "without_session"} =>
                      (Matches(doc, OnlySession([body EXCEPT !.session_filter = "with_session"]))
                         # Matches(doc, OnlySession([body EXCEPT !.session_filter = "without_session"])))

-----------------------------------------------------------------------------
(* Properties of the event statistics *)

\* the request was answered 200 with the result of op
Answered200(op) ==
    /\ phase = "responded"
    /\ resp.status = 200
    /\ resp.body.kind = "result"
    /\ resp.body.op = op

DigitsAt(k, P) == \A i \in P : IsDigit(k[i])

\* year-month
IsMonthKey(k) ==
    /\ Len(k) = 7
    /\ DigitsAt(k, {1, 2, 3, 4, 6, 7})
    /\ k[5] = "-"

\* year-month-day
IsDayKey(k) ==
    /\ Len(k) = 10
    /\ IsMonthKey(SubSeq(k, 1, 7))
    /\ k[8] = "-"
    /\ DigitsAt(k, {9, 10})

\* year-month-day hour:00
IsHourKey(k) ==
    /\ Len(k) = 16
    /\ IsDayKey(SubSeq(k, 1, 10))
    /\ k[11] = " "
    /\ DigitsAt(k, {12, 13})
    /\ SubSeq(k, 14, 16) = <<":", "0", "0">>

GranularityKey(timeframe, k) ==
    CASE timeframe \in {"1d", "3d"} -> IsHourKey(k)
      [] timeframe \in {"7d", "30d"} -> IsDayKey(k)
      [] timeframe = "90d" -> IsMonthKey(k)
      [] OTHER -> FALSE

\* C17: timeframes 1d and 3d group by hour (key year-month-day hour:00), 7d
\* and 30d by day (year-month-day), 90d by month (year-month); every bucket
\* key of an overview response has the format of its timeframe's granularity.
C17_BucketKeyFormat ==
    Answered200("get_analytics_overview") =>
        \A j \in 1..Len(resp.body.data.chart_data) :
            GranularityKey(resp.body.timeframe, resp.body.data.chart_data[j].date)

\* an hourly overview with two buckets
C17_Witness ==
    /\ Answered200("get_analytics_overview")
    /\ resp.body.timeframe = "1d"
    /\ Len(resp.body.data.chart_data) = 2
    /\ IsHourKey(resp.body.data.chart_data[1].date)

\* the events the collection held at every query of the answered request
EventsSeen == SubSeq(events, 1, resp.body.seen[1])

\* the collection did not change while the request was served
Unchanging == \A j \in 1..Len(resp.body.seen) : resp.body.seen[j] = resp.body.seen[1]

\* the lower time bound of a valid timeframe: now minus its days
LowerBound(timeframe) == NowUtc - 24 * TimeframeDays[timeframe]

\* the events whose normalized timestamp is at or after the lower bound
Matching(ev, timeframe) ==
    {i \in 1..Len(ev) : InWindow(ev[i], LowerBound(timeframe))}

\* the bucket of event e at the timeframe's granularity
BucketOf(e, timeframe) ==
    dateToString(get_date_grouping(timeframe), parsed_date(e).h)

RECURSIVE SumField(_, _)
SumField(rows, n) ==
    IF n = 0 THEN 0 ELSE rows[n].total_analytics + SumField(rows, n - 1)

\* C18: in an overview response over an unchanging event set, every event
\* whose normalized timestamp is at or after the lower bound is counted in
\* exactly one bucket: the series is sorted ascending by bucket key with no key
\* repeated, and the sum of total_analytics over the buckets equals
\* period_total_analytics, which equals the number of matching events.
C18_EveryEventInOneBucket ==
    (Answered200("get_analytics_overview") /\ Unchanging) =>
        LET chart == resp.body.data.chart_data
            tf == resp.body.timeframe
            m == Matching(EventsSeen, tf)
        IN  /\ \A j \in 1..(Len(chart) - 1) : TextLess(chart[j].date, chart[j + 1].date)
            /\ \A i \in m :
                  Cardinality({j \in 1..Len(chart) :
                                  chart[j].date = BucketOf(EventsSeen[i], tf)}) = 1
            /\ \A j \in 1..Len(chart) :
                  chart[j].total_analytics =
                      Cardinality({i \in m : BucketOf(EventsSeen[i], tf) = chart[j].date})
            /\ SumField(chart, Len(chart)) = resp.body.data.period_total_analytics
            /\ resp.body.data.period_total_analytics = Cardinality(m)

\* an overview of two buckets, one of them holding two events of one actor,
\* over a collection that also holds events outside the window
C18_Witness ==
    /\ Answered200("get_analytics_overview")
    /\ Unchanging
    /\ Len(resp.body.data.chart_data) = 2
    /\ \E j \in 1..2 : resp.body.data.chart_data[j].total_analytics >
                          resp.body.data.chart_data[j].unique_visitors
    /\ Cardinality(Matching(EventsSeen, resp.body.timeframe)) < Len(EventsSeen)

RECURSIVE SumUnique(_, _)
SumUnique(rows, n) ==
    IF n = 0 THEN 0 ELSE rows[n].unique_visitors + SumUnique(rows, n - 1)

\* C19: in an overview response over an unchanging event set,
\* period_unique_visitors is the number of distinct actors over the events the
\* series counts: at most the sum of the per-bucket unique_visitors, at least
\* the largest of them, and 0 if and only if the series is empty.
C19_PeriodUniqueVisitors ==
    (Answered200("get_analytics_overview") /\ Unchanging) =>
        LET chart == resp.body.data.chart_data
            n == resp.body.data.period_unique_visitors
            m == Matching(EventsSeen, resp.body.timeframe)
        IN  /\ n = Cardinality({EventsSeen[i].user_id : i \in m})
            /\ n <= SumUnique(chart, Len(chart))
            /\ \A j \in 1..Len(chart) : n >= chart[j].unique_visitors
            /\ (n = 0) <=> (chart = <<>>)

\* an actor seen in two buckets: fewer visitors than the buckets' sum
C19_Witness ==
    /\ Answered200("get_analytics_overview")
    /\ Unchanging
    /\ resp.body.data.period_unique_visitors >= 2
    /\ resp.body.data.period_unique_visitors <
          SumUnique(resp.body.data.chart_data, Len(resp.body.data.chart_data))

\* the stored timestamp is a string that denotes no instant
Unparseable(e) ==
    e.created_at.type = "string" /\ e.created_at.text \notin DOMAIN DateStringTable

WithoutUnparseable(ev) == SelectSeq(ev, LAMBDA e : ~Unparseable(e))

RECURSIVE RunToEnd(_, _, _)
\* the outcome of the coroutine t over the unchanging events ev, the store
\* answering every query
RunToEnd(t, ev, tie) ==
    IF t.out # NoOut THEN t.out
    ELSE RunToEnd(CHOOSE u \in {StepOver(t, FALSE, tie, build, ev)} : TRUE, ev, tie)

\* the dictionary op returns over the events ev
DataOver(op, timeframe, ev, tie) ==
    RunToEnd(Begin(op, timeframe, FixedPlan(op)), ev, tie).value.data

\* C20: an event whose stored timestamp is a string that cannot be parsed
\* never makes overview, daily-active, commands or urls fail, and is excluded
\* from every count and bucket rather than given a default time: over an
\* unchanging collection the result is that of the collection without the
\* event, and an operation fails only when the store does.
C20_UnparseableExcluded ==
    /\ \A op \in AnalyticsOps :
          (Answered200(op) /\ Unchanging) =>
              \E tie \in BOOLEAN :
                  resp.body.data =
                      DataOver(op, resp.body.timeframe, WithoutUnparseable(EventsSeen), tie)
    /\ (phase = "responded" /\ req.route \in AnalyticsOps /\ resp.status # 200) =>
          /\ resp.status = 500
          /\ resp.detail[Len(resp.detail)] = StoreDown.msg[1]

\* command statistics over a collection that holds a command event with an
\* unparseable timestamp
C20_Witness ==
    /\ Answered200("get_command_stats")
    /\ Unchanging
    /\ \E i \in 1..Len(EventsSeen) :
          /\ Unparseable(EventsSeen[i])
          /\ RegexSearch(CommandPattern, EventsSeen[i].description, TRUE)
    /\ resp.body.data.total >= 1

\* the description has a leading '/'
IsCommand(d) == d # <<>> /\ d[1] = "/"

\* the description has a leading 'https', in any letter case
IsLink(d) ==
    Len(d) >= 5 /\ str_lower(SubSeq(d, 1, 5)) = <<"h", "t", "t", "p", "s">>

InClass(op, d) == IF op = "get_command_stats" THEN IsCommand(d) ELSE IsLink(d)

\* how many events of ev in the window carry description d
CountOf(ev, timeframe, d) ==
    Cardinality({i \in Matching(ev, timeframe) : ev[i].description = d})

\* the descriptions of op's class that ev holds in the window
ClassDescriptions(op, ev, timeframe) ==
    {ev[i].description : i \in {k \in Matching(ev, timeframe) :
                                   InClass(op, ev[k].description)}}

\* C21: the top-N operations return at most 10 items ordered by non-increasing
\* total count; get_command_stats returns only descriptions with a leading
\* '/', get_url_stats only descriptions with a leading 'https' (the store
\* matches letters in either case), so no description is in both results;
\* every returned item counts at least as much as every description of its
\* class that was left out, and 1 <= unique_users <= total_count.
C21_TopItems ==
    \A op \in TrendOps :
        Answered200(op) =>
            LET items == resp.body.data.items
                ev == EventsSeen
                tf == resp.body.timeframe
                names == {items[j].name : j \in 1..Len(items)}
            IN  /\ Len(items) <= 10
                /\ Cardinality(names) = Len(items)
                /\ \A j \in 1..(Len(items) - 1) :
                      items[j].total_count >= items[j + 1].total_count
                /\ \A j \in 1..Len(items) :
                      /\ InClass(op, items[j].name)
                      /\ ~(IsCommand(items[j].name) /\ IsLink(items[j].name))
                      /\ items[j].total_count = CountOf(ev, tf, items[j].name)
                      /\ 1 <= items[j].unique_users
                      /\ items[j].unique_users <= items[j].total_count
                      /\ \A d \in ClassDescriptions(op, ev, tf) \ names :
                            items[j].total_count >= CountOf(ev, tf, d)

\* ten commands returned, another left out whose count ties with the last
\* one returned, and an item of several events by fewer actors
C21_Witness ==
    /\ Answered200("get_command_stats")
    /\ Len(resp.body.data.items) = 10
    /\ \E d \in ClassDescriptions("get_command_stats", EventsSeen, resp.body.timeframe) :
          /\ \A j \in 1..10 : resp.body.data.items[j].name # d
          /\ CountOf(EventsSeen, resp.body.timeframe, d) = resp.body.data.items[10].total_count
    /\ resp.body.data.items[1].total_count > resp.body.data.items[1].unique_users
    /\ resp.body.data.items[1].unique_users >= 2

-----------------------------------------------------------------------------
(* Properties of identifier normalization *)

RECURSIVE HasObjectId(_)
\* an ObjectId sits somewhere in the value
HasObjectId(value) ==
    \/ value.t = "oid"
    \/ \E i \in 1..Len(value.kids) : HasObjectId(value.kids[i].val)

Converting == loc # NoLoc /\ loc.op = "convert_object_ids"

\* C22: identifier normalization is idempotent: for every nested document d,
\* convert_object_ids(convert_object_ids(d)) equals convert_object_ids(d), and
\* a document that holds no opaque identifier is left unchanged.
C22_ConvertIdempotent ==
    Converting =>
        /\ loc.calls >= 2 => loc.doc = ConvertObjectIds(loc.input)
        /\ (loc.calls >= 1 /\ ~HasObjectId(loc.input)) => loc.doc = loc.input

\* a document converted twice whose nested identifier was replaced
C22_Witness ==
    /\ Converting
    /\ loc.calls = 2
    /\ loc.input.kids[2].val.t = "dict"
    /\ HasObjectId(loc.input.kids[2].val)
    /\ ~HasObjectId(loc.doc)

RECURSIVE SameButIdentifiers(_, _)
\* b is a with identifiers replaced by their string form or left, and nothing
\* else changed
SameButIdentifiers(a, b) ==
    IF a.t = "oid" THEN b = a \/ b = StrV(a.s)
    ELSE /\ b.t = a.t
         /\ b.s = a.s
         /\ Len(b.kids) = Len(a.kids)
         /\ \A i \in 1..Len(a.kids) :
               /\ b.kids[i].key = a.kids[i].key
               /\ SameButIdentifiers(a.kids[i].val, b.kids[i].val)

\* C23: after convert_object_ids no opaque identifier remains anywhere in the
\* document, at any nesting depth (top level, nested objects, sequences of
\* objects, sequences nested inside those objects), and every value that is
\* not an identifier is left as it was.
C23_NoIdentifierRemains ==
    (Converting /\ loc.calls >= 1) =>
        /\ ~HasObjectId(loc.doc)
        /\ SameButIdentifiers(loc.input, loc.doc)

-----------------------------------------------------------------------------
(* get_analytics_data: optional and required pipelines *)

AnalyticsDataRequest == req.route = "get_analytics_data" /\ ctrlCalls = 1

\* the slices of the response that do not come from an emptied pipeline are
\* the answers of their pipelines over the collection
SlicesComputed(data, emptied) ==
    /\ data.overview = FirstWithoutId(OverviewGroup(store))
    /\ data.daily_activity = IF 2 \in emptied THEN <<>> ELSE ActivityRows(store)
    /\ \E tie \in BOOLEAN : data.membership_distribution = MembershipRows(store, tie)
    /\ data.top_users = ConvertAll(TopUsers(store))
    /\ data.platform_usage =
          IF 5 \in emptied THEN EmptyDict ELSE FirstWithoutId(PlatformGroup(store))

C24_WitnessRequired == AnalyticsDataRequest /\ phase = "responded" /\ resp.status = 500 /\ queries = 3

-----------------------------------------------------------------------------
(* get_analytics_summary: asyncio.gather over the four operations *)

SummaryRequest == req.route = "get_analytics_summary" /\ tasks # NoTasks

\* every coroutine handed to gather has returned or raised
AllCompleted == \A p \in DOMAIN tasks : tasks[p].out # NoOut

\* a summary response carries the four slices, each the result its own
\* operation computes over the collection; a failure carries no slice
SummarySlices ==
    (SummaryRequest /\ phase = "responded") =>
        IF resp.status = 200
        THEN /\ resp.body.kind = "summary"
             /\ DOMAIN resp.body.parts = DOMAIN SummaryParts
             /\ \A p \in DOMAIN SummaryParts :
                   /\ resp.body.parts[p].op = SummaryParts[p]
                   /\ \E tie \in BOOLEAN :
                         resp.body.parts[p].data =
                             DataOver(SummaryParts[p], resp.body.timeframe, events, tie)
        ELSE /\ resp.status = 500
             /\ resp.body = NoBody
             /\ \E p \in DOMAIN tasks : tasks[p].out.kind = "raise"

\* C25: get_analytics_summary responds only after all four gathered
\* operations have completed, with the four slices each from its own
\* operation, or with HTTP 500 and no slice when one of them failed
C25_SummaryJoinsAllFour ==
    [][(SummaryRequest /\ phase = "handling" /\ phase' = "responded")
          => (AllCompleted /\ SummarySlices')]_vars

\* the response of get_analytics_summary leaves a gathered operation running
C25_RespondedWhileRunning ==
    SummaryRequest /\ phase = "responded" /\ resp.status = 500 /\ ~AllCompleted

\* a summary answered with its four slices
SummaryAnswered == SummaryRequest /\ phase = "responded" /\ resp.status = 200

-----------------------------------------------------------------------------
(* main.py: the store client from process start to shutdown.  The process   *)
(* is loc = [op |-> "main", ...]: DB_URL is the environment's connection    *)
(* string, client the module's global, created the number of clients        *)
(* constructed, pinged whether the startup ping succeeded, served the       *)
(* number of requests handed to the application.                            *)

Url_db == <<"m", "o", "n", "g", "o", "d", "b", ":", "/", "/", "h">>

\* os.getenv("DB_URL"): unset, empty or a connection string
DbUrls == {NoneSeq, <<>>, Url_db}

MaxServed == 4

InitMain ==
    /\ build \in Builds
    /\ phase = "idle"
    /\ req = [route |-> "none", authorization |-> <<>>, cookie |-> <<>>]
    /\ body = NoBody
    /\ token = NoneSeq
    /\ user = NoUser
    /\ verified = FALSE
    /\ \E u \in DbUrls :
          loc = [op |-> "main", stage |-> "created", DB_URL |-> u, client |-> "None",
                 created |-> 0, pinged |-> FALSE, served |-> 0]
    /\ resp = NoResp
    /\ ctrlCalls = 0
    /\ queries = 0
    /\ tasks = NoTasks
    /\ store = <<>>
    /\ events = <<>>

MainUnchanged ==
    UNCHANGED <<build, phase, body, token, user, verified, resp, ctrlCalls,
                queries, tasks, store, events>>

\* a startup that goes on serving whatever the ping says
AfterPingDegraded(ok) == "serving"

\* the stage after await client.admin.command('ping'): except Exception as e
\* raises e again, and a startup handler that raises makes the startup fail
AfterPing(ok) == IF ok THEN "serving" ELSE "failed"

\* startup_db_client up to await client.admin.command('ping')
startup_db_client ==
    /\ loc # NoLoc
    /\ loc.op = "main"
    /\ loc.stage = "created"
    /\ loc' = IF loc.DB_URL \in {NoneSeq, <<>>}
              THEN [loc EXCEPT !.stage = "failed"]
              ELSE [loc EXCEPT !.stage = "pinging", !.client = "open",
                               !.created = @ + 1]
    /\ UNCHANGED req
    /\ MainUnchanged

\* the store answers the ping, or the ping fails
PingAnswers(ok) ==
    /\ loc # NoLoc
    /\ loc.op = "main"
    /\ loc.stage = "pinging"
    /\ loc' = [loc EXCEPT !.stage = AfterPing(ok), !.pinged = ok]
    /\ UNCHANGED req
    /\ MainUnchanged

\* the server hands a request to the application, which it does only between
\* a completed startup and the shutdown
ServeRequest(route) ==
    /\ loc # NoLoc
    /\ loc.op = "main"
    /\ loc.stage = "serving"
    /\ loc.served < MaxServed
    /\ req' = [route |-> route, authorization |-> <<>>, cookie |-> <<>>]
    /\ loc' = [loc EXCEPT !.served = @ + 1]
    /\ MainUnchanged

\* shutdown_db_client, which the server runs when it stops after a completed
\* startup: if client: client.close()
shutdown_db_client ==
    /\ loc # NoLoc
    /\ loc.op = "main"
    /\ loc.stage = "serving"
    /\ loc' = [loc EXCEPT !.stage = "stopped",
                          !.client = IF @ # "None" THEN "closed" ELSE @]
    /\ UNCHANGED req
    /\ MainUnchanged

NextMain ==
    \/ startup_db_client
    \/ \E ok \in BOOLEAN : PingAnswers(ok)
    \/ \E route \in Routes : ServeRequest(route)
    \/ shutdown_db_client

SpecMain == InitMain /\ [][NextMain]_vars

\* C26: at most one store client is ever created, and exactly one by a
\* startup that found a connection string; a process whose connection string
\* is missing or whose ping failed has a failed startup and serves no
\* request; after the shutdown the client is closed
C26_ClientLifecycle ==
    /\ loc.created <= 1
    /\ (loc.stage \in {"pinging", "serving", "stopped"}) => loc.created = 1
    /\ (loc.DB_URL \in {NoneSeq, <<>>} /\ loc.stage # "created") =>
          (loc.stage = "failed" /\ loc.created = 0)
    /\ (loc.stage \in {"serving", "stopped"} \/ loc.served > 0) => loc.pinged
    /\ (loc.stage = "failed") => (~loc.pinged /\ loc.served = 0)
    /\ (loc.stage = "stopped") => loc.client = "closed"
    /\ (loc.stage \in {"pinging", "serving"}) => loc.client = "open"

\* a process that served requests and was shut down
C26_Witness ==
    loc.stage = "stopped" /\ loc.served > 0 /\ loc.client = "closed" /\ loc.created = 1

\* a process whose ping failed
C26_WitnessPingFailed ==
    loc.stage = "failed" /\ loc.created = 1 /\ loc.served = 0

-----------------------------------------------------------------------------
(* Store failures: one attempt per query, and the end of the request *)

\* the request was answered 500 after at least one store query, its timeframe
\* (where it has one) being valid: a store query has failed
StoreFailed500 ==
    /\ phase = "responded"
    /\ resp.status = 500
    /\ queries > 0
    /\ req.route \in TimeframeRoutes => body.timeframe \in ValidTimeframes

\* the reason of the 500 response contains the message of the store's failure
ReasonCarriesFailure ==
    StoreFailed500 =>
        \E i \in DOMAIN resp.detail : resp.detail[i] \in {StoreDown.msg[1], BadRegex.msg[1]}

\* an operation that is one flow has issued its queries in program order, each
\* once, and only an optional query has failed without ending it
OncePerQuery ==
    (phase = "handling" /\ loc # NoLoc /\ loc.op \in StepOps) =>
        /\ queries = loc.pc
        /\ queries < Len(loc.plan)
        /\ loc.emptied \subseteq {i \in 1..loc.pc : loc.op = "get_analytics_data" /\ i \in {2, 5}}

\* no store query is issued between the 500 response and the next request
NoQueryAfterFailure ==
    StoreFailed500 => (queries' = queries \/ phase' = "received")

\* the same, for the operations other than get_analytics_summary
NoQueryAfterFailureOneFlow ==
    [][req.route # "get_analytics_summary" => NoQueryAfterFailure]_vars

ReasonCarriesFailureOneFlow ==
    req.route # "get_analytics_summary" => ReasonCarriesFailure

\* C27: every store query of a request is attempted at most once; the first
\* failure of a query that is not optional ends the request at once with HTTP
\* 500 whose reason contains the message of the failure, and no store query of
\* that request is issued after it
C27_NoRetries ==
    /\ [](OncePerQuery /\ ReasonCarriesFailure)
    /\ [][NoQueryAfterFailure]_vars

\* a summary answered 500 whose gathered operations go on querying the store
C27_QueryAfterFailure ==
    /\ StoreFailed500
    /\ req.route = "get_analytics_summary"
    /\ \E p \in DOMAIN tasks : tasks[p].out = NoOut /\ tasks[p].pc > 0

\* the same, for every operation
NoQueryAfterFailureAnyFlow == [][NoQueryAfterFailure]_vars

-----------------------------------------------------------------------------
(* Listing and search: the count and the page are two queries *)

\* the number of users a page descriptor announces from position skip on
Announced(page, skip) ==
    IF skip < page.total_count THEN page.showing_to - skip ELSE 0

\* the query of the operation that awaits its find
PagedQuery == IF loc.op = "search_users_data" THEN loc.query ELSE EmptyDict

\* when no record that the query selects was appended between the count and
\* the find, the page holds as many users as its descriptor announces
ConsistentWithoutAppend ==
    [][(/\ phase = "handling"
        /\ loc # NoLoc
        /\ loc.op \in PagedOps
        /\ count_documents(store, PagedQuery) = loc.total_count
        /\ Paged200')
          => Len(resp'.body.users) = Announced(resp'.body.page, loc.skip)]_vars

\* C28: whatever the external bot appends between the count query and the
\* find query of the listing or the search, the response holds as many users
\* as its page descriptor announces: showing_to - skip when skip <
\* total_count, and none otherwise
C28_CountAndPageConsistent ==
    Paged200 =>
        Len(resp.body.users) = Announced(resp.body.page, ClampSkip(body.skip[1]))

\* a page that holds more users than its descriptor announces
C28_PageLongerThanAnnounced ==
    /\ Paged200
    /\ resp.body.kind = "users"
    /\ resp.body.page.total_count = 1
    /\ resp.body.page.showing_to = 1
    /\ Len(resp.body.users) = 2

-----------------------------------------------------------------------------
(* Properties of the daily trend of commands and links *)

RECURSIVE SumSeq(_)
SumSeq(s) == IF s = <<>> THEN 0 ELSE Head(s) + SumSeq(Tail(s))

\* C29: in a response of get_command_stats or get_url_stats over an
\* unchanging event set, every item's trend_dates and trend_data have the same
\* length, the trend_dates are day keys in strictly ascending order, every
\* trend count is at least 1, and the trend counts add up to the item's
\* total_count
C29_TrendMatchesTotals ==
    \A op \in TrendOps :
        (Answered200(op) /\ Unchanging) =>
            \A j \in 1..Len(resp.body.data.items) :
                LET item == resp.body.data.items[j]
                IN  /\ Len(item.trend_dates) = Len(item.trend_data)
                    /\ \A k \in 1..Len(item.trend_dates) : IsDayKey(item.trend_dates[k])
                    /\ \A k \in 1..(Len(item.trend_dates) - 1) :
                          TextLess(item.trend_dates[k], item.trend_dates[k + 1])
                    /\ \A k \in 1..Len(item.trend_data) : item.trend_data[k] >= 1
                    /\ SumSeq(item.trend_data) = item.total_count

\* an item whose events fall on two days, one of them with several events,
\* while the collection holds an older event of the same description
C29_Witness ==
    /\ Answered200("get_command_stats")
    /\ Unchanging
    /\ \E j \in 1..Len(resp.body.data.items) :
          LET item == resp.body.data.items[j]
          IN  /\ Len(item.trend_dates) >= 2
              /\ \E k \in 1..Len(item.trend_data) : item.trend_data[k] >= 2
              /\ item.total_count >= 3

-----------------------------------------------------------------------------
(* Properties of the page flags *)

\* the skip in effect is a whole number of pages
OnPageBoundary == ClampSkip(body.skip[1]) % resp.body.page.per_page = 0

\* C30: on the listing and on the search path, when the skip in effect is a
\* multiple of the limit in effect, has_next holds exactly when current_page
\* < total_pages and has_previous exactly when current_page > 1
C30_PageFlags ==
    (Paged200 /\ OnPageBoundary) =>
        LET page == resp.body.page
        IN  /\ page.per_page \in 1..100
            /\ page.has_next <=> (page.current_page < page.total_pages)
            /\ page.has_previous <=> (page.current_page > 1)

\* the second of three pages of the listing, and the last page exactly full
C30_Witness ==
    /\ Paged200
    /\ OnPageBoundary
    /\ resp.body.kind = "users"
    /\ resp.body.page.current_page = 2
    /\ resp.body.page.total_pages = 2
    /\ resp.body.page.total_count = 2 * resp.body.page.per_page
    /\ ~resp.body.page.has_next
    /\ resp.body.page.has_previous

\* a middle page on the search path
C30_WitnessSearch ==
    /\ Paged200
    /\ OnPageBoundary
    /\ resp.body.kind = "search"
    /\ resp.body.page.current_page = 2
    /\ resp.body.page.has_next
    /\ resp.body.page.has_previous

\* off a page boundary the flags and the page numbers disagree
C30_OffBoundary ==
    /\ Paged200
    /\ ~OnPageBoundary
    /\ resp.body.page.has_next # (resp.body.page.current_page < resp.body.page.total_pages)

=============================================================================
